---- MODULE Spec2Model ----
(***************************************************************************)
(* A model of the CSV ingestion pipeline of babylon_data_loader:           *)
(* Sink.Ingest -> client.IngestCSVFiles -> CSVFileProcessor.ingestCSVFile  *)
(* -> processFile (ExtractInfo, Parse, mapRawRecordsToTransactions,        *)
(* BulkUpsertTransactions, moveFile), with the Stats accumulator, the      *)
(* document store and the two directories as state.                        *)
(*                                                                         *)
(* Strings are sequences of one-character strings, so that the string      *)
(* functions of the code (HasSuffix, ToLower, the chase regexp, time.Parse,*)
(* ParseFloat) are computed and not assumed.                               *)
(***************************************************************************)
EXTENDS Integers, Sequences, FiniteSets, TLC

\* ------------------------------------------------------------------------
\* Bounds of the model
\* ------------------------------------------------------------------------

\* largest number of entries in the unprocessed directory
MaxFiles == 2

\* number of times the operator runs the ingest over the directory
MaxRuns == 2

\* number of calls to the system (file system, database) that fail although
\* nothing in the model's state makes them fail
MaxFaults == 1

\* longest run of digits in the file names given to the extractors
MaxDigits == 5

\* largest number of columns in the header of a CSV file given to the parser
MaxCols == 2

\* largest number of data rows in a CSV file given to the parser
MaxRows == 2

\* ------------------------------------------------------------------------
\* String helpers (Go's strings package as used by the code)
\* ------------------------------------------------------------------------

UpperChars == <<"A","B","C","D","E","F","G","H","I","J","K","L","M",
                "N","O","P","Q","R","S","T","U","V","W","X","Y","Z">>

LowerChars == <<"a","b","c","d","e","f","g","h","i","j","k","l","m",
                "n","o","p","q","r","s","t","u","v","w","x","y","z">>

Digits == <<"0","1","2","3","4","5","6","7","8","9">>

\* the value of each decimal digit
ValueOf == [c \in {Digits[i] : i \in 1..10} |-> (CHOOSE i \in 1..10 : Digits[i] = c) - 1]

IsDigit(c) == c \in DOMAIN ValueOf

DigitVal(c) == ValueOf[c]

\* the lower-case letter of each upper-case letter
LowerOf == [c \in {UpperChars[i] : i \in 1..26} |->
              LowerChars[CHOOSE i \in 1..26 : UpperChars[i] = c]]

ToLowerChar(c) == IF c \in DOMAIN LowerOf THEN LowerOf[c] ELSE c

\* strings.ToLower
ToLower(s) == [i \in 1..Len(s) |-> ToLowerChar(s[i])]

\* strings.HasSuffix
HasSuffix(s, suffix) ==
  /\ Len(s) >= Len(suffix)
  /\ SubSeq(s, Len(s) - Len(suffix) + 1, Len(s)) = suffix

\* strings.Contains
Contains(s, sub) ==
  \E i \in 1..(Len(s) - Len(sub) + 1) : SubSeq(s, i, i + Len(sub) - 1) = sub

AllDigits(s) == \A i \in 1..Len(s) : IsDigit(s[i])

RECURSIVE DigitsToNat(_)
DigitsToNat(s) ==
  IF Len(s) = 0 THEN 0
  ELSE 10 * DigitsToNat(SubSeq(s, 1, Len(s) - 1)) + DigitVal(s[Len(s)])

\* the value of a Go map lookup m[k]: the zero value "" when k is absent
Get(m, k) == IF k \in DOMAIN m THEN m[k] ELSE <<>>


\* a string literal of the code, written as a sequence of characters
sCsvLower == <<".","c","s","v">>

sCsvUpper == <<".","C","S","V">>

sChase == <<"c","h","a","s","e">>

sSynthetic == <<"s","y","n","t","h","e","t","i","c">>

sDefaultAccount == <<"0","0","0","0">>

sTransactionsPrefix == <<"t","r","a","n","s","a","c","t","i","o","n","s","_">>

kAmount == <<"a","m","o","u","n","t">>

kBalance == <<"b","a","l","a","n","c","e">>

kDetails == <<"d","e","t","a","i","l","s">>

kDescription == <<"d","e","s","c","r","i","p","t","i","o","n">>

kCategory == <<"c","a","t","e","g","o","r","y">>

kType == <<"t","y","p","e">>

kCheckOrSlip == <<"c","h","e","c","k"," ","o","r"," ","s","l","i","p"," ","#">>

\* a variant of validPostingDateHeaders that looks at "Posting Date" first
validPostingDateHeaders_PostingFirst ==
  << <<"P","o","s","t","i","n","g"," ","D","a","t","e">>,
     <<"P","o","s","t"," ","D","a","t","e">>,
     <<"p","o","s","t","i","n","g"," ","d","a","t","e">>,
     <<"p","o","s","t"," ","d","a","t","e">> >>

\* datalake.go, mapRawRecordsToTransactions: the posting date headers, in order
validPostingDateHeaders ==
  << <<"P","o","s","t"," ","D","a","t","e">>,
     <<"P","o","s","t","i","n","g"," ","D","a","t","e">>,
     <<"p","o","s","t"," ","d","a","t","e">>,
     <<"p","o","s","t","i","n","g"," ","d","a","t","e">> >>

\* ------------------------------------------------------------------------
\* validateCSVFile
\* ------------------------------------------------------------------------

\* a variant of validateCSVFile that looks at the name only
validateCSVFile_NameOnly(file) ==
  HasSuffix(file.name, sCsvLower) \/ HasSuffix(file.name, sCsvUpper)

\* true only if the entry is a regular file named *.csv or *.CSV
validateCSVFile(file) ==
  ~ ( file.isDir
      \/ (~ HasSuffix(file.name, sCsvLower) /\ ~ HasSuffix(file.name, sCsvUpper)) )

\* ------------------------------------------------------------------------
\* Source extractors
\* ------------------------------------------------------------------------

NoInfo == [ok |-> FALSE, DataSource |-> <<>>, AccountID |-> <<>>]

\* the start positions at which the regexp chase(\d{4}) matches s
ChaseMatches(s) ==
  { i \in 1..Len(s) :
      /\ i + 8 <= Len(s)
      /\ SubSeq(s, i, i + 4) = sChase
      /\ AllDigits(SubSeq(s, i + 5, i + 8)) }

\* the first submatch of the leftmost match of chase(\d{4})
ChaseSubmatch(s) ==
  LET i == CHOOSE j \in ChaseMatches(s) : \A k \in ChaseMatches(s) : j <= k
  IN  SubSeq(s, i + 5, i + 8)

ChaseExtractInfo(filename) ==
  LET lowerFileName == ToLower(filename)
  IN  IF ChaseMatches(lowerFileName) # {}
      THEN [ok |-> TRUE, DataSource |-> sChase,
            AccountID |-> ChaseSubmatch(lowerFileName)]
      ELSE NoInfo

GenericExtractInfo(filename) ==
  LET lowerFileName == ToLower(filename)
  IN  IF Contains(lowerFileName, sChase) /\ ChaseMatches(lowerFileName) # {}
      THEN [ok |-> TRUE, DataSource |-> sChase,
            AccountID |-> ChaseSubmatch(lowerFileName)]
      ELSE IF Contains(lowerFileName, sSynthetic)
      THEN [ok |-> TRUE, DataSource |-> sSynthetic, AccountID |-> sDefaultAccount]
      ELSE NoInfo

\* the InfoExtractor the caller wired in
ExtractInfo(kind, filename) ==
  IF kind = "chase" THEN ChaseExtractInfo(filename) ELSE GenericExtractInfo(filename)

\* ------------------------------------------------------------------------
\* time.Parse("01/02/2006", s) and Time.Format("01/02/2006")
\* ------------------------------------------------------------------------

isLeap(year) == (year % 4) = 0 /\ ((year % 100) # 0 \/ (year % 400) = 0)

daysIn(month, year) ==
  IF month = 2 THEN (IF isLeap(year) THEN 29 ELSE 28)
  ELSE IF month \in {4, 6, 9, 11} THEN 30 ELSE 31

NoDate == [ok |-> FALSE, month |-> 0, day |-> 0, year |-> 0]

ParseDate(s) ==
  IF /\ Len(s) = 10
     /\ AllDigits(SubSeq(s, 1, 2)) /\ s[3] = "/"
     /\ AllDigits(SubSeq(s, 4, 5)) /\ s[6] = "/"
     /\ AllDigits(SubSeq(s, 7, 10))
  THEN LET month == DigitsToNat(SubSeq(s, 1, 2))
           day   == DigitsToNat(SubSeq(s, 4, 5))
           year  == DigitsToNat(SubSeq(s, 7, 10))
       IN  IF month >= 1 /\ month <= 12 /\ day >= 1 /\ day <= daysIn(month, year)
           THEN [ok |-> TRUE, month |-> month, day |-> day, year |-> year]
           ELSE NoDate
  ELSE NoDate

Pad2(n) == << Digits[((n \div 10) % 10) + 1], Digits[(n % 10) + 1] >>

Pad4(n) == << Digits[((n \div 1000) % 10) + 1], Digits[((n \div 100) % 10) + 1],
              Digits[((n \div 10) % 10) + 1], Digits[(n % 10) + 1] >>

FormatDate(d) == Pad2(d.month) \o <<"/">> \o Pad2(d.day) \o <<"/">> \o Pad4(d.year)

\* ------------------------------------------------------------------------
\* strconv.ParseFloat(s, 64), for plain decimal numerals.  A float64 value is
\* held as a whole number of hundredths; the numerals of the model have at
\* most two fractional digits (further digits are cut off).
\* ------------------------------------------------------------------------

NoFloat == [ok |-> FALSE, val |-> 0]

Hundredths(frac) ==
  IF Len(frac) = 0 THEN 0
  ELSE IF Len(frac) = 1 THEN 10 * DigitVal(frac[1])
  ELSE 10 * DigitVal(frac[1]) + DigitVal(frac[2])

ParseUnsigned(s) ==
  LET dots == { i \in 1..Len(s) : s[i] = "." }
  IN  IF dots = {}
      THEN IF Len(s) > 0 /\ AllDigits(s)
           THEN [ok |-> TRUE, val |-> 100 * DigitsToNat(s)]
           ELSE NoFloat
      ELSE LET p    == CHOOSE i \in dots : \A j \in dots : i <= j
               int  == SubSeq(s, 1, p - 1)
               frac == SubSeq(s, p + 1, Len(s))
           IN  IF AllDigits(int) /\ AllDigits(frac) /\ Len(int) + Len(frac) > 0
               THEN [ok |-> TRUE, val |-> 100 * DigitsToNat(int) + Hundredths(frac)]
               ELSE NoFloat

ParseFloat(s) ==
  IF Len(s) > 0 /\ s[1] = "-"
  THEN LET r == ParseUnsigned(Tail(s)) IN [ok |-> r.ok, val |-> 0 - r.val]
  ELSE IF Len(s) > 0 /\ s[1] = "+"
  THEN ParseUnsigned(Tail(s))
  ELSE ParseUnsigned(s)


\* ------------------------------------------------------------------------
\* DefaultParser.Parse, once os.Open has succeeded.  The rows of a file are its
\* lines as the csv reader splits them into fields (the files of the model are
\* free of csv syntax errors).
\* ------------------------------------------------------------------------

\* safeGet, with 1-based indices
safeGet(slice, index) == IF index <= Len(slice) THEN slice[index] ELSE <<>>

\* colIndex[strings.ToLower(col)] = i, a later column overwriting an earlier one
colIndexOf(header) ==
  [ k \in { ToLower(header[i]) : i \in 1..Len(header) } |->
      CHOOSE i \in 1..Len(header) :
        /\ ToLower(header[i]) = k
        /\ \A j \in 1..Len(header) : ToLower(header[j]) = k => j <= i ]

RowDoc(colIndex, record) == [ key \in DOMAIN colIndex |-> safeGet(record, colIndex[key]) ]

\* a variant of ParseRows that also skips the rows longer than the header
RECURSIVE ParseRows_SameLength(_, _, _)
ParseRows_SameLength(header, lines, n) ==
  IF n > Len(lines) THEN <<>>
  ELSE IF Len(lines[n]) # Len(header)
  THEN ParseRows_SameLength(header, lines, n + 1)
  ELSE << RowDoc(colIndexOf(header), lines[n]) >> \o ParseRows_SameLength(header, lines, n + 1)

RECURSIVE ParseRows(_, _, _)
ParseRows(header, lines, n) ==
  IF n > Len(lines) THEN <<>>
  ELSE IF Len(lines[n]) < Len(header)
  THEN ParseRows(header, lines, n + 1)
  ELSE << RowDoc(colIndexOf(header), lines[n]) >> \o ParseRows(header, lines, n + 1)

\* a variant of Parse for which a file without records is a malformed file
Parse_NoRecordsIsError(file) ==
  IF Len(file.rows) <= 1 \/ ParseRows(file.rows[1], file.rows, 2) = <<>>
  THEN [err |-> "failed to read CSV header from file", records |-> <<>>, count |-> 0]
  ELSE LET documents == ParseRows(file.rows[1], file.rows, 2)
       IN  [err |-> "", records |-> documents, count |-> Len(documents)]

Parse(file) ==
  IF Len(file.rows) = 0
  THEN [err |-> "", records |-> <<>>, count |-> 0]
  ELSE LET documents == ParseRows(file.rows[1], file.rows, 2)
       IN  [err |-> "", records |-> documents, count |-> Len(documents)]

\* ------------------------------------------------------------------------
\* Normalization: getPostingDate, fromRecords, mapRawRecordsToTransactions
\* ------------------------------------------------------------------------

RECURSIVE getPostingDateFrom(_, _, _)
getPostingDateFrom(record, validHeaders, n) ==
  IF n > Len(validHeaders) THEN <<>>
  ELSE IF validHeaders[n] \in DOMAIN record /\ record[validHeaders[n]] # <<>>
  THEN record[validHeaders[n]]
  ELSE getPostingDateFrom(record, validHeaders, n + 1)

getPostingDate(record, validHeaders) == getPostingDateFrom(record, validHeaders, 1)

\* a variant of BalanceOf that reads a balance it cannot parse as the amount
BalanceOf_FromAmount(record) ==
  IF kBalance \in DOMAIN record /\ record[kBalance] # <<>>
  THEN (IF ParseFloat(record[kBalance]).ok THEN ParseFloat(record[kBalance]).val
        ELSE ParseFloat(Get(record, kAmount)).val)
  ELSE 0

\* the balance of a record: 0.0 unless the column is present, non-empty and numeric
BalanceOf(record) ==
  IF kBalance \in DOMAIN record /\ record[kBalance] # <<>>
  THEN (IF ParseFloat(record[kBalance]).ok THEN ParseFloat(record[kBalance]).val ELSE 0)
  ELSE 0

\* a variant of fromRecord that reads the category from the type column
fromRecord_CategoryFromType(dataSource, accountID, record) ==
  LET postingDateStr == getPostingDate(record, validPostingDateHeaders)
      parsedDate     == ParseDate(postingDateStr)
      amount         == ParseFloat(Get(record, kAmount))
  IN  IF postingDateStr = <<>> THEN <<>>
      ELSE IF ~ parsedDate.ok THEN <<>>
      ELSE IF ~ amount.ok THEN <<>>
      ELSE << [ Details        |-> Get(record, kDetails),
                PostingDate    |-> FormatDate(parsedDate),
                Description    |-> Get(record, kDescription),
                Amount         |-> amount.val,
                Category       |-> Get(record, kType),
                Type           |-> Get(record, kType),
                Balance        |-> BalanceOf(record),
                CheckOrSlipNum |-> Get(record, kCheckOrSlip),
                DataSource     |-> dataSource,
                AccountID      |-> accountID ] >>

\* the body of the loop of fromRecords: the transactions one record appends
fromRecord(dataSource, accountID, record) ==
  LET postingDateStr == getPostingDate(record, validPostingDateHeaders)
      parsedDate     == ParseDate(postingDateStr)
      amount         == ParseFloat(Get(record, kAmount))
  IN  IF postingDateStr = <<>> THEN <<>>
      ELSE IF ~ parsedDate.ok THEN <<>>
      ELSE IF ~ amount.ok THEN <<>>
      ELSE << [ Details        |-> Get(record, kDetails),
                PostingDate    |-> FormatDate(parsedDate),
                Description    |-> Get(record, kDescription),
                Amount         |-> amount.val,
                Category       |-> Get(record, kCategory),
                Type           |-> Get(record, kType),
                Balance        |-> BalanceOf(record),
                CheckOrSlipNum |-> Get(record, kCheckOrSlip),
                DataSource     |-> dataSource,
                AccountID      |-> accountID ] >>

RECURSIVE fromRecordsAt(_, _, _, _)
fromRecordsAt(dataSource, accountID, rawRecords, n) ==
  IF n > Len(rawRecords) THEN <<>>
  ELSE fromRecord(dataSource, accountID, rawRecords[n])
         \o fromRecordsAt(dataSource, accountID, rawRecords, n + 1)

fromRecords(dataSource, accountID, rawRecords) ==
  fromRecordsAt(dataSource, accountID, rawRecords, 1)

\* a variant of mapRawRecordsToTransactions without the check for a total loss
mapRawRecordsToTransactions_NoLossCheck(rawRecords, dataSource, accountID) ==
  [err |-> "", transactions |-> fromRecords(dataSource, accountID, rawRecords)]

mapRawRecordsToTransactions(rawRecords, dataSource, accountID) ==
  LET transactions == fromRecords(dataSource, accountID, rawRecords)
  IN  IF Len(rawRecords) > 0 /\ Len(transactions) = 0
      THEN [err |-> "no valid transactions could be processed", transactions |-> <<>>]
      ELSE [err |-> "", transactions |-> transactions]

\* ------------------------------------------------------------------------
\* The document store.  A stored document carries the bson field names of
\* model.Transaction, the collection it is in and an _id.
\* ------------------------------------------------------------------------

\* bson marshalling of model.Transaction
ToBson(doc) ==
  [ Details        |-> doc.Details,
    PostingDate    |-> doc.PostingDate,
    Description    |-> doc.Description,
    Amount         |-> doc.Amount,
    category       |-> doc.Category,
    Type           |-> doc.Type,
    Balance        |-> doc.Balance,
    CheckOrSlipNum |-> doc.CheckOrSlipNum,
    dataSource     |-> doc.DataSource,
    accountID      |-> doc.AccountID ]

\* the filter of the update model built for doc
UpsertFilter(doc) ==
  [ Details     |-> doc.Details,
    PostingDate |-> doc.PostingDate,
    Description |-> doc.Description,
    dataSource  |-> doc.DataSource,
    accountID   |-> doc.AccountID ]

\* a stored document matches a filter when it agrees on every field of the filter
MatchesFilter(stored, filter) ==
  \A f \in DOMAIN filter : f \in DOMAIN stored /\ stored[f] = filter[f]

Stored(collectionName, id, fields) ==
  [ coll |-> collectionName, id |-> id,
    Details |-> fields.Details, PostingDate |-> fields.PostingDate,
    Description |-> fields.Description, Amount |-> fields.Amount,
    category |-> fields.category, Type |-> fields.Type, Balance |-> fields.Balance,
    CheckOrSlipNum |-> fields.CheckOrSlipNum, dataSource |-> fields.dataSource,
    accountID |-> fields.accountID ]

\* a variant of UpsertOne that inserts a document for every write model
UpsertOne_AlwaysInsert(st, collectionName, doc) ==
  LET matching == { d \in st : d.coll = collectionName /\ MatchesFilter(d, UpsertFilter(doc)) }
  IN  st \cup { Stored(collectionName, Cardinality(matching) + 1, ToBson(doc)) }

\* UpdateOne with $set: doc and upsert(true): the first matching document gets
\* every field of doc, and a new document is inserted when none matches.  The
\* _id of a document is its number among the documents with its natural key.
UpsertOne(st, collectionName, doc) ==
  LET matching == { d \in st : d.coll = collectionName /\ MatchesFilter(d, UpsertFilter(doc)) }
  IN  IF matching = {}
      THEN st \cup { Stored(collectionName, 1, ToBson(doc)) }
      ELSE LET first == CHOOSE d \in matching : \A e \in matching : d.id <= e.id
           IN  (st \ {first}) \cup { Stored(collectionName, first.id, ToBson(doc)) }

\* the write models of a batch applied one after another, in the given order
RECURSIVE ApplyWrites(_, _, _, _)
ApplyWrites(st, collectionName, transactions, order) ==
  IF Len(order) = 0 THEN st
  ELSE ApplyWrites(UpsertOne(st, collectionName, transactions[Head(order)]),
                   collectionName, transactions, Tail(order))

\* the orders in which the server may apply the writes S of an unordered batch
Orders(S) ==
  { o \in [1..Cardinality(S) -> S] : \A i, j \in 1..Cardinality(S) : o[i] = o[j] => i = j }

\* fmt.Sprintf("%s_%s", TransactionsCollection, dataSource)
CollectionNameOf(dataSource) == sTransactionsPrefix \o dataSource


\* ------------------------------------------------------------------------
\* The directory entries of the model, in the order os.ReadDir lists them
\* (sorted by filename).  rows are the lines of the file split into fields.
\* ------------------------------------------------------------------------

Catalogue ==
  <<
  \* no Balance column, columns in another order and in another case
    [ name |-> <<"C","h","a","s","e","1","1","1","1",".","C","S","V">>,
      isDir |-> FALSE,
      rows |-> << << <<"A","M","O","U","N","T">>, <<"d","e","t","a","i","l","s">>, <<"C","a","t","e","g","o","r","y">>, <<"P","o","s","t","i","n","g"," ","D","a","t","e">>, <<"C","h","e","c","k"," ","o","r"," ","S","l","i","p"," ","#">> >>,
                << <<"1","2">>, <<"W">>, <<"F","o","o","d">>, <<"0","3","/","1","5","/","2","0","2","4">>, <<"7","7">> >> >> ],
  \* the row of scenario A, then a row with the same natural key and an empty
  \* balance, a row with a non-numeric balance, rows with a non-numeric and an
  \* empty amount, with an invalid and an empty date, and a short row
    [ name |-> <<"c","h","a","s","e","2","2","2","2",".","c","s","v">>,
      isDir |-> FALSE,
      rows |-> << << <<"D","e","t","a","i","l","s">>, <<"P","o","s","t","i","n","g"," ","D","a","t","e">>, <<"D","e","s","c","r","i","p","t","i","o","n">>, <<"A","m","o","u","n","t">>, <<"T","y","p","e">>, <<"B","a","l","a","n","c","e">> >>,
                << <<"D","E","B","I","T">>, <<"0","1","/","0","1","/","2","0","2","4">>, <<"C","o","f","f","e","e">>, <<"-","4",".","5","0">>, <<"D","E","B","I","T","_","C","A","R","D">>, <<"1","0","0",".","0","0">> >>,
                << <<"D","E","B","I","T">>, <<"0","1","/","0","1","/","2","0","2","4">>, <<"C","o","f","f","e","e">>, <<"7",".","5">>, <<"C","R","E","D","I","T">>, <<>> >>,
                << <<"X">>, <<"0","2","/","2","9","/","2","0","2","4">>, <<"T","e","a">>, <<"a","b","c">>, <<"T">>, <<"1">> >>,
                << <<"X">>, <<"0","2","/","2","9","/","2","0","2","4">>, <<"T","e","a">>, <<"3">>, <<"T">>, <<"a","b","c">> >>,
                << <<"X">>, <<"0","2","/","2","9","/","2","0","2","4">>, <<"T","e","a">>, <<>>, <<"T">>, <<"1">> >>,
                << <<"X">>, <<"0","2","/","3","0","/","2","0","2","4">>, <<"T","e","a">>, <<"1">>, <<"T">>, <<"1">> >>,
                << <<"X">>, <<>>, <<"T","e","a">>, <<"1">>, <<"T">>, <<"1">> >>,
                << <<"X">>, <<"0","2","/","2","9","/","2","0","2","4">> >> >> ],
  \* no Amount column: no row survives normalization
    [ name |-> <<"c","h","a","s","e","3","3","3","3",".","c","s","v">>,
      isDir |-> FALSE,
      rows |-> << << <<"D","e","t","a","i","l","s">>, <<"P","o","s","t"," ","D","a","t","e">> >>,
                << <<"Z">>, <<"0","1","/","0","1","/","2","0","2","4">> >> >> ],
  \* not a csv file
    [ name |-> <<"n","o","t","e","s",".","t","x","t">>,
      isDir |-> FALSE,
      rows |-> << << <<"h","e","l","l","o">> >> >> ],
  \* a directory with a csv name
    [ name |-> <<"s","u","b","d","i","r",".","c","s","v">>,
      isDir |-> TRUE,
      rows |-> << >> ],
  \* a header-only file of the synthetic source, a name the chase extractor
  \* does not recognise
    [ name |-> <<"s","y","n","t","h","e","t","i","c","_","1",".","c","s","v">>,
      isDir |-> FALSE,
      rows |-> << << <<"D","e","t","a","i","l","s">>, <<"P","o","s","t","i","n","g"," ","D","a","t","e">>, <<"A","m","o","u","n","t">> >> >> ],
  \* an empty file of the synthetic source
    [ name |-> <<"s","y","n","t","h","e","t","i","c","_","2",".","c","s","v">>,
      isDir |-> FALSE,
      rows |-> << >> ]
  >>

EntryIds == 1..Len(Catalogue)

\* the entries the directories of the runs are made of: all but the empty file
RunEntries == 1..6

\* the entries of the runs over files without data rows: Chase1111.CSV, which
\* has a data row, the header-only synthetic_1.csv and the empty synthetic_2.csv
NoDataEntries == {1, 6, 7}

\* the sequence of the elements of a set of entry ids, ascending
RECURSIVE SortedIds(_)
SortedIds(S) ==
  IF S = {} THEN <<>>
  ELSE LET m == CHOOSE x \in S : \A y \in S : x <= y
       IN  <<m>> \o SortedIds(S \ {m})


\* ------------------------------------------------------------------------
\* State
\* ------------------------------------------------------------------------

VARIABLES
  unprocessed,         \* the entries of unprocessedDir (ids of the catalogue)
  processed,           \* processedDir: whether it exists, and the files in it
  cwd,                 \* the working directory of the process
  extractorKind,       \* the InfoExtractor wired into the Sink
  moveProcessedFiles,  \* Config.MoveProcessedFiles
  ctxDone,             \* the context of the run has been cancelled or has expired
  store,               \* the transaction documents of the database
  syncLog,             \* the documents of the dataSync collection
  run,                 \* the number of the current run of Sink.Ingest
  pc,                  \* the position of the run
  files,               \* IngestCSVFiles: the listing os.ReadDir returned
  idx,                 \* IngestCSVFiles: the position of the loop in files
  stats,               \* IngestCSVFiles: the Stats accumulator
  runErr,              \* the error Sink.Ingest returns
  sourceInfo,          \* processFile: the extracted SourceInfo
  rawRecords,          \* processFile: the records the parser returned
  transactions,        \* processFile: the normalized transactions
  err,                 \* the error of the current entry, outermost message first
  calls,               \* history: the stage calls of this run and their outcome
  faults,              \* history: the number of system calls that failed so far
  snap,                \* history: per entry, the successful bulk writes of its
                       \* batch and the store right after the last one
  input,               \* a function called on its own: the function and its arguments
  output               \* a function called on its own: what it returned

vars == << unprocessed, processed, cwd, extractorKind, moveProcessedFiles, ctxDone, store,
           syncLog, run, pc, files, idx, stats, runErr, sourceInfo, rawRecords,
           transactions, err, calls, faults, snap, input, output >>

config == << cwd, extractorKind, moveProcessedFiles >>

locals == << sourceInfo, rawRecords, transactions >>

dirs == << unprocessed, processed >>

fn == << input, output >>

\* ------------------------------------------------------------------------
\* Stats
\* ------------------------------------------------------------------------

NilStats ==
  [nil |-> TRUE, TotalFiles |-> 0, ProcessedFiles |-> 0, FailedFiles |-> 0,
   Failures |-> [f \in {} |-> <<>>]]

NewStats ==
  [nil |-> FALSE, TotalFiles |-> 0, ProcessedFiles |-> 0, FailedFiles |-> 0,
   Failures |-> [f \in {} |-> <<>>]]

\* a variant of AddFailure that counts the failure and keeps no reason
AddFailure_CountOnly(s, file, reason) ==
  [s EXCEPT !.FailedFiles = s.FailedFiles + 1]

AddFailure(s, file, reason) ==
  [s EXCEPT !.FailedFiles = s.FailedFiles + 1,
            !.Failures = [f \in DOMAIN s.Failures \cup {file} |->
                            IF f = file THEN reason ELSE s.Failures[f]]]

IncrementProcessed(s) == [s EXCEPT !.ProcessedFiles = s.ProcessedFiles + 1]

\* ------------------------------------------------------------------------
\* Initial state: a directory of at most MaxFiles entries, an empty database,
\* no processed directory yet
\* ------------------------------------------------------------------------

NoSnap == [n |-> 0, st |-> {}]

InitOver(entries) ==
  /\ unprocessed \in { S \in SUBSET entries : Cardinality(S) <= MaxFiles }
  /\ processed = [exists |-> FALSE, names |-> {}]
  /\ extractorKind \in {"chase", "generic"}
  /\ moveProcessedFiles \in BOOLEAN
  \* only a move looks at the working directory
  /\ cwd \in IF moveProcessedFiles THEN {"unprocessedDir", "elsewhere"} ELSE {"elsewhere"}
  /\ ctxDone = FALSE
  /\ store = {}
  /\ syncLog = <<>>
  /\ run = 1
  /\ pc = "stat"
  /\ files = <<>>
  /\ idx = 0
  /\ stats = NilStats
  /\ runErr = <<>>
  /\ sourceInfo = NoInfo
  /\ rawRecords = <<>>
  /\ transactions = <<>>
  /\ err = <<>>
  /\ calls = <<>>
  /\ faults = 0
  /\ snap = [e \in EntryIds |-> NoSnap]
  /\ input = <<>>
  /\ output = <<>>

Init == InitOver(RunEntries)

\* the directory entry the loop is at
cur == Catalogue[files[idx]]

Logged(stage, ok) == Append(calls, [stage |-> stage, entry |-> idx, ok |-> ok])

\* ------------------------------------------------------------------------
\* Sink.Ingest
\* ------------------------------------------------------------------------

\* a variant of SinkStat that notes the error of os.Stat and goes on to the
\* connection
SinkStat_GoesOn ==
  /\ pc = "stat"
  /\ \/ /\ pc' = "connect"
        /\ UNCHANGED << runErr, faults >>
     \/ /\ faults < MaxFaults
        /\ faults' = faults + 1
        /\ runErr' = <<"stat check for directory">>
        /\ pc' = "connect"
  /\ UNCHANGED << dirs, config, ctxDone, fn, store, syncLog, run, files, idx, stats, locals, err,
                  calls, snap >>

\* os.Stat(s.UnprocessedDir): the directory exists, or Ingest returns
SinkStat ==
  /\ pc = "stat"
  /\ \/ /\ pc' = "connect"
        /\ UNCHANGED << runErr, faults >>
     \/ /\ faults < MaxFaults
        /\ faults' = faults + 1
        /\ runErr' = <<"stat check for directory">>
        /\ pc' = "done"
  /\ UNCHANGED << dirs, config, ctxDone, fn, store, syncLog, run, files, idx, stats, locals, err,
                  calls, snap >>

\* the number of failed calls after a call that takes the context has failed:
\* a call made with a context that is done fails on its own account
FaultsAfter(done) == IF done THEN faults ELSE faults + 1

\* a variant of SinkConnect that goes on to the listing after a failed
\* connection instead of returning
SinkConnect_NoReturn ==
  /\ pc = "connect"
  /\ \/ /\ ~ ctxDone
        /\ pc' = "readdir"
        /\ UNCHANGED << runErr, faults >>
     \/ /\ ctxDone \/ faults < MaxFaults
        /\ faults' = FaultsAfter(ctxDone)
        /\ runErr' = <<"connection to MongoDB failed">>
        /\ pc' = "readdir"
  /\ UNCHANGED << dirs, config, ctxDone, fn, store, syncLog, run, files, idx, stats, locals, err,
                  calls, snap >>

\* storage.ConnectToMongoDBFunc: the connection is made, or Ingest returns
SinkConnect ==
  /\ pc = "connect"
  /\ \/ /\ ~ ctxDone
        /\ pc' = "readdir"
        /\ UNCHANGED << runErr, faults >>
     \/ /\ ctxDone \/ faults < MaxFaults
        /\ faults' = FaultsAfter(ctxDone)
        /\ runErr' = <<"connection to MongoDB failed">>
        /\ pc' = "done"
  /\ UNCHANGED << dirs, config, ctxDone, fn, store, syncLog, run, files, idx, stats, locals, err,
                  calls, snap >>

\* ------------------------------------------------------------------------
\* client.IngestCSVFiles
\* ------------------------------------------------------------------------

\* os.ReadDir, NewStats, stats.TotalFiles = len(files)
ReadDir ==
  /\ pc = "readdir"
  /\ \/ /\ files' = SortedIds(unprocessed)
        /\ stats' = [NewStats EXCEPT !.TotalFiles = Cardinality(unprocessed)]
        /\ idx' = 1
        /\ pc' = IF unprocessed = {} THEN "done" ELSE "validate"
        /\ UNCHANGED << runErr, faults >>
     \/ /\ faults < MaxFaults
        /\ faults' = faults + 1
        /\ runErr' = <<"ingestion of CSV files failed", "failed to read directory">>
        /\ pc' = "done"
        /\ UNCHANGED << files, stats, idx >>
  /\ UNCHANGED << dirs, config, ctxDone, fn, store, syncLog, run, locals, err, calls, snap >>

\* a variant of AfterEntry that leaves the loop at the first entry with an error
AfterEntry_Abort(i, n, e) == IF e # <<>> THEN "done" ELSE IF i < n THEN "validate" ELSE "done"

\* the position of the loop after the entry at i of n has been handled; the
\* error e of that entry does not end the loop
AfterEntry(i, n, e) == IF i < n THEN "validate" ELSE "done"

\* a variant of ClientRecord that hands a failed entry to ingestCSVFile a
\* second time before it goes on
ClientRecord_RetriesOnce ==
  /\ pc = "clientRecord"
  /\ stats' = IF err # <<>> THEN AddFailure(stats, cur.name, err) ELSE stats
  /\ IF err # <<>> /\ Cardinality({ i \in 1..Len(calls) :
                                      calls[i].stage = "Validate" /\ calls[i].entry = idx }) = 1
     THEN pc' = "validate" /\ idx' = idx
     ELSE pc' = AfterEntry(idx, Len(files), err) /\ idx' = idx + 1
  /\ sourceInfo' = NoInfo
  /\ rawRecords' = <<>>
  /\ transactions' = <<>>
  /\ err' = <<>>
  /\ UNCHANGED << dirs, config, ctxDone, fn, store, syncLog, run, files, runErr, calls, faults, snap >>

\* the body of the loop after ingestCSVFile has returned: a returned error is
\* recorded with AddFailure, and the loop goes on
ClientRecord ==
  /\ pc = "clientRecord"
  /\ stats' = IF err # <<>> THEN AddFailure(stats, cur.name, err) ELSE stats
  /\ pc' = AfterEntry(idx, Len(files), err)
  /\ idx' = idx + 1
  /\ sourceInfo' = NoInfo
  /\ rawRecords' = <<>>
  /\ transactions' = <<>>
  /\ err' = <<>>
  /\ UNCHANGED << dirs, config, ctxDone, fn, store, syncLog, run, files, runErr, calls, faults, snap >>

\* ------------------------------------------------------------------------
\* CSVFileProcessor.ingestCSVFile and processFile, one action per stage
\* ------------------------------------------------------------------------

\* ingestCSVFile: validateCSVFile; an invalid entry is recorded and returned
Validate ==
  /\ pc = "validate"
  /\ IF validateCSVFile(cur)
     THEN /\ calls' = Logged("Validate", TRUE)
          /\ pc' = "extract"
          /\ UNCHANGED << stats, err >>
     ELSE /\ calls' = Logged("Validate", FALSE)
          /\ stats' = AddFailure(stats, cur.name, <<"Not a valid CSV file">>)
          /\ err' = <<"file is not a valid CSV file">>
          /\ pc' = "clientRecord"
  /\ UNCHANGED << dirs, config, ctxDone, fn, store, syncLog, run, files, idx, runErr, locals,
                  faults, snap >>

\* processFile: p.Extractor.ExtractInfo(unprocessedFile.Name())
Extract ==
  /\ pc = "extract"
  /\ LET info == ExtractInfo(extractorKind, cur.name)
     IN  IF info.ok
         THEN /\ calls' = Logged("Extract", TRUE)
              /\ sourceInfo' = info
              /\ pc' = "parse"
              /\ UNCHANGED err
         ELSE /\ calls' = Logged("Extract", FALSE)
              /\ err' = <<"failed to extract source info",
                          "unable to extract source info from filename">>
              /\ pc' = "ingestReturn"
              /\ UNCHANGED sourceInfo
  /\ UNCHANGED << dirs, config, ctxDone, fn, store, syncLog, run, files, idx, stats, runErr,
                  rawRecords, transactions, faults, snap >>

\* processFile: p.Parser.Parse on unprocessedDir/<name>; os.Open may fail
ParseFile ==
  /\ pc = "parse"
  /\ \/ /\ Parse(cur).err = ""
        /\ calls' = Logged("Parse", TRUE)
        /\ rawRecords' = Parse(cur).records
        /\ pc' = "normalize"
        /\ UNCHANGED << err, faults >>
     \/ /\ faults < MaxFaults
        /\ faults' = faults + 1
        /\ calls' = Logged("Parse", FALSE)
        /\ err' = <<"failed to open file">>
        /\ pc' = "ingestReturn"
        /\ UNCHANGED rawRecords
  /\ UNCHANGED << dirs, config, ctxDone, fn, store, syncLog, run, files, idx, stats, runErr,
                  sourceInfo, transactions, snap >>

\* processFile: mapRawRecordsToTransactions
Normalize ==
  /\ pc = "normalize"
  /\ LET mapped == mapRawRecordsToTransactions(rawRecords, sourceInfo.DataSource,
                                               sourceInfo.AccountID)
     IN  IF mapped.err = ""
         THEN /\ calls' = Logged("Normalize", TRUE)
              /\ transactions' = mapped.transactions
              /\ pc' = "persist"
              /\ UNCHANGED err
         ELSE /\ calls' = Logged("Normalize", FALSE)
              /\ err' = << mapped.err >>
              /\ pc' = "ingestReturn"
              /\ UNCHANGED transactions
  /\ UNCHANGED << dirs, config, ctxDone, fn, store, syncLog, run, files, idx, stats, runErr,
                  sourceInfo, rawRecords, faults, snap >>

\* a variant of AfterPersist that moves the file whatever the flag says
AfterPersist_AlwaysMove(move) == "move"

\* processFile after BulkUpsertTransactions returned nil: the move, if enabled
AfterPersist(move) == IF move THEN "move" ELSE "ingestReturn"

\* the error a failed call of the MongoDB driver returns
DriverError == "driver error"

\* the error of a call that takes the context: ctx.Err() when the context is done
CallError(done) == IF done THEN "context canceled" ELSE DriverError

\* the sets of writes of a batch of n that a failed bulk write may have
\* applied: any of them, and none when the context was done before the call
Applicable(done, n) == IF done THEN {{}} ELSE SUBSET (1..n)

\* a variant of BulkUpsertTransactions that inserts a SyncLog for an empty batch
BulkUpsertTransactions_LogsEmpty ==
  /\ pc = "persist"
  /\ \/ /\ Len(transactions) = 0
        /\ calls' = Logged("Persist", TRUE)
        /\ pc' = AfterPersist(moveProcessedFiles)
        /\ syncLog' = Append(syncLog,
                        [CollectionName  |-> CollectionNameOf(sourceInfo.DataSource),
                         RecordsUploaded |-> 0])
        /\ UNCHANGED << store, snap, err, faults >>
     \/ /\ Len(transactions) > 0
        /\ ~ ctxDone
        /\ \E order \in Orders(1..Len(transactions)) :
             store' = ApplyWrites(store, CollectionNameOf(transactions[1].DataSource),
                                  transactions, order)
        /\ snap' = [snap EXCEPT ![files[idx]] =
                      [n |-> snap[files[idx]].n + 1, st |-> store']]
        /\ calls' = Logged("BulkWrite", TRUE)
        /\ pc' = "insertsync"
        /\ UNCHANGED << err, faults >>
     \/ /\ Len(transactions) > 0
        /\ ctxDone \/ faults < MaxFaults
        /\ faults' = FaultsAfter(ctxDone)
        /\ \E applied \in Applicable(ctxDone, Len(transactions)) : \E order \in Orders(applied) :
             store' = ApplyWrites(store, CollectionNameOf(transactions[1].DataSource),
                                  transactions, order)
        /\ calls' = Append(Logged("BulkWrite", FALSE),
                           [stage |-> "Persist", entry |-> idx, ok |-> FALSE])
        /\ err' = <<"failed to bulk upsert transactions", "failed to perform bulk write",
                    CallError(ctxDone)>>
        /\ pc' = "ingestReturn"
        /\ UNCHANGED snap
  /\ IF Len(transactions) = 0 THEN TRUE ELSE UNCHANGED syncLog
  /\ UNCHANGED << dirs, config, ctxDone, fn, run, files, idx, stats, runErr, locals >>

\* BulkUpsertTransactions up to the bulk write: an empty batch returns nil at
\* once; otherwise collection.BulkWrite(models, SetOrdered(false)), where the
\* server applies the upserts of the batch in an order of its choosing, and
\* where some of the writes may have been applied when the call fails
BulkUpsertTransactions ==
  /\ pc = "persist"
  /\ \/ /\ Len(transactions) = 0
        /\ calls' = Logged("Persist", TRUE)
        /\ pc' = AfterPersist(moveProcessedFiles)
        /\ UNCHANGED << store, snap, err, faults >>
     \/ /\ Len(transactions) > 0
        /\ ~ ctxDone
        /\ \E order \in Orders(1..Len(transactions)) :
             store' = ApplyWrites(store, CollectionNameOf(transactions[1].DataSource),
                                  transactions, order)
        /\ snap' = [snap EXCEPT ![files[idx]] =
                      [n |-> snap[files[idx]].n + 1, st |-> store']]
        /\ calls' = Logged("BulkWrite", TRUE)
        /\ pc' = "insertsync"
        /\ UNCHANGED << err, faults >>
     \/ /\ Len(transactions) > 0
        /\ ctxDone \/ faults < MaxFaults
        /\ faults' = FaultsAfter(ctxDone)
        /\ \E applied \in Applicable(ctxDone, Len(transactions)) : \E order \in Orders(applied) :
             store' = ApplyWrites(store, CollectionNameOf(transactions[1].DataSource),
                                  transactions, order)
        /\ calls' = Append(Logged("BulkWrite", FALSE),
                           [stage |-> "Persist", entry |-> idx, ok |-> FALSE])
        /\ err' = <<"failed to bulk upsert transactions", "failed to perform bulk write",
                    CallError(ctxDone)>>
        /\ pc' = "ingestReturn"
        /\ UNCHANGED snap
  /\ UNCHANGED << dirs, config, ctxDone, fn, syncLog, run, files, idx, stats, runErr, locals >>

\* a variant of InsertOne that takes the documents of the batch out of the
\* store again when the insert fails
InsertOne_RollsBack ==
  /\ pc = "insertsync"
  /\ \/ /\ ~ ctxDone
        /\ syncLog' = Append(syncLog,
                        [CollectionName  |-> CollectionNameOf(transactions[1].DataSource),
                         RecordsUploaded |-> Len(transactions)])
        /\ calls' = Append(Logged("InsertOne", TRUE),
                           [stage |-> "Persist", entry |-> idx, ok |-> TRUE])
        /\ pc' = AfterPersist(moveProcessedFiles)
        /\ UNCHANGED << store, err, faults >>
     \/ /\ ctxDone \/ faults < MaxFaults
        /\ faults' = FaultsAfter(ctxDone)
        /\ store' = { d \in store : ~ \E i \in 1..Len(transactions) :
                                        MatchesFilter(d, UpsertFilter(transactions[i])) }
        /\ calls' = Append(Logged("InsertOne", FALSE),
                           [stage |-> "Persist", entry |-> idx, ok |-> FALSE])
        /\ err' = <<"failed to bulk upsert transactions",
                    "failed to insert into dataSync collection", CallError(ctxDone)>>
        /\ pc' = "ingestReturn"
        /\ UNCHANGED syncLog
  /\ UNCHANGED << dirs, config, ctxDone, fn, run, files, idx, stats, runErr, locals, snap >>

\* a variant of InsertOne that records the number of documents the batch left
\* in the store instead of the number of transactions of the batch
InsertOne_CountStored ==
  /\ pc = "insertsync"
  /\ \/ /\ ~ ctxDone
        /\ syncLog' = Append(syncLog,
                        [CollectionName  |-> CollectionNameOf(transactions[1].DataSource),
                         RecordsUploaded |->
                           Cardinality({ d \in store : \E i \in 1..Len(transactions) :
                                           MatchesFilter(d, UpsertFilter(transactions[i])) })])
        /\ calls' = Append(Logged("InsertOne", TRUE),
                           [stage |-> "Persist", entry |-> idx, ok |-> TRUE])
        /\ pc' = AfterPersist(moveProcessedFiles)
        /\ UNCHANGED << err, faults >>
     \/ /\ ctxDone \/ faults < MaxFaults
        /\ faults' = FaultsAfter(ctxDone)
        /\ calls' = Append(Logged("InsertOne", FALSE),
                           [stage |-> "Persist", entry |-> idx, ok |-> FALSE])
        /\ err' = <<"failed to bulk upsert transactions",
                    "failed to insert into dataSync collection", CallError(ctxDone)>>
        /\ pc' = "ingestReturn"
        /\ UNCHANGED syncLog
  /\ UNCHANGED << dirs, config, ctxDone, fn, store, run, files, idx, stats, runErr, locals, snap >>

\* a variant of InsertOne whose successful insert leaves the collection as it was
InsertOne_NoAppend ==
  /\ pc = "insertsync"
  /\ \/ /\ ~ ctxDone
        /\ calls' = Append(Logged("InsertOne", TRUE),
                           [stage |-> "Persist", entry |-> idx, ok |-> TRUE])
        /\ pc' = AfterPersist(moveProcessedFiles)
        /\ UNCHANGED << syncLog, err, faults >>
     \/ /\ ctxDone \/ faults < MaxFaults
        /\ faults' = FaultsAfter(ctxDone)
        /\ calls' = Append(Logged("InsertOne", FALSE),
                           [stage |-> "Persist", entry |-> idx, ok |-> FALSE])
        /\ err' = <<"failed to bulk upsert transactions",
                    "failed to insert into dataSync collection", CallError(ctxDone)>>
        /\ pc' = "ingestReturn"
        /\ UNCHANGED syncLog
  /\ UNCHANGED << dirs, config, ctxDone, fn, store, run, files, idx, stats, runErr, locals, snap >>

\* syncCollection.InsertOne(syncLog) and the return of BulkUpsertTransactions
InsertOne ==
  /\ pc = "insertsync"
  /\ \/ /\ ~ ctxDone
        /\ syncLog' = Append(syncLog,
                        [CollectionName  |-> CollectionNameOf(transactions[1].DataSource),
                         RecordsUploaded |-> Len(transactions)])
        /\ calls' = Append(Logged("InsertOne", TRUE),
                           [stage |-> "Persist", entry |-> idx, ok |-> TRUE])
        /\ pc' = AfterPersist(moveProcessedFiles)
        /\ UNCHANGED << err, faults >>
     \/ /\ ctxDone \/ faults < MaxFaults
        /\ faults' = FaultsAfter(ctxDone)
        /\ calls' = Append(Logged("InsertOne", FALSE),
                           [stage |-> "Persist", entry |-> idx, ok |-> FALSE])
        /\ err' = <<"failed to bulk upsert transactions",
                    "failed to insert into dataSync collection", CallError(ctxDone)>>
        /\ pc' = "ingestReturn"
        /\ UNCHANGED syncLog
  /\ UNCHANGED << dirs, config, ctxDone, fn, store, run, files, idx, stats, runErr, locals, snap >>

\* the files of the directory a relative path is looked up in
FilesIn(dir) == IF dir = "unprocessedDir" THEN unprocessed ELSE {}

\* moveFile hands os.Rename the base name of the file, which the system
\* resolves against the working directory
RenameSourceDir(workingDir) == workingDir

\* moveFile: checkProcessedDir creates processedDir when it is missing, then
\* moveProcessedFile renames the file into it
MoveFile ==
  /\ pc = "move"
  /\ \/ \* os.MkdirAll fails
        /\ ~ processed.exists
        /\ faults < MaxFaults
        /\ faults' = faults + 1
        /\ calls' = Logged("Relocate", FALSE)
        /\ err' = <<"failed to move file", "failed to check/create processed directory",
                    "the valid directory target was not found">>
        /\ UNCHANGED dirs
     \/ \* os.Rename fails: there is no file of that name to rename
        /\ files[idx] \notin FilesIn(RenameSourceDir(cwd))
        /\ processed' = [processed EXCEPT !.exists = TRUE]
        /\ calls' = Logged("Relocate", FALSE)
        /\ err' = <<"failed to move file", "failed to move file">>
        /\ UNCHANGED << unprocessed, faults >>
     \/ \* os.Rename fails: the system refuses
        /\ files[idx] \in FilesIn(RenameSourceDir(cwd))
        /\ faults < MaxFaults
        /\ faults' = faults + 1
        /\ processed' = [processed EXCEPT !.exists = TRUE]
        /\ calls' = Logged("Relocate", FALSE)
        /\ err' = <<"failed to move file", "failed to move file">>
        /\ UNCHANGED unprocessed
     \/ \* os.Rename succeeds
        /\ files[idx] \in FilesIn(RenameSourceDir(cwd))
        /\ processed' = [exists |-> TRUE, names |-> processed.names \cup {files[idx]}]
        /\ unprocessed' = unprocessed \ {files[idx]}
        /\ calls' = Logged("Relocate", TRUE)
        /\ UNCHANGED << err, faults >>
  /\ pc' = "ingestReturn"
  /\ UNCHANGED << config, ctxDone, fn, store, syncLog, run, files, idx, stats, runErr, locals, snap >>

\* a variant of IngestReturn that counts the file as processed whatever
\* processFile returned
IngestReturn_AlwaysIncrement ==
  /\ pc = "ingestReturn"
  /\ IF err # <<>>
     THEN /\ stats' = IncrementProcessed(AddFailure(stats, cur.name, err))
          /\ err' = <<"failed to process file">> \o err
     ELSE /\ stats' = IncrementProcessed(stats)
          /\ UNCHANGED err
  /\ pc' = "clientRecord"
  /\ UNCHANGED << dirs, config, ctxDone, fn, store, syncLog, run, files, idx, runErr, locals,
                  calls, faults, snap >>

\* ingestCSVFile after processFile returned: AddFailure and the wrapped error,
\* or IncrementProcessed
IngestReturn ==
  /\ pc = "ingestReturn"
  /\ IF err # <<>>
     THEN /\ stats' = AddFailure(stats, cur.name, err)
          /\ err' = <<"failed to process file">> \o err
     ELSE /\ stats' = IncrementProcessed(stats)
          /\ UNCHANGED err
  /\ pc' = "clientRecord"
  /\ UNCHANGED << dirs, config, ctxDone, fn, store, syncLog, run, files, idx, runErr, locals,
                  calls, faults, snap >>

\* the operator runs the ingest again over what is left in the directory
NextRun ==
  /\ pc = "done"
  /\ run < MaxRuns
  /\ run' = run + 1
  /\ pc' = "stat"
  /\ files' = <<>>
  /\ idx' = 0
  /\ stats' = NilStats
  /\ runErr' = <<>>
  /\ calls' = <<>>
  /\ ctxDone' = FALSE
  /\ UNCHANGED << dirs, config, fn, store, syncLog, locals, err, faults, snap >>

Next ==
  \/ SinkStat
  \/ SinkConnect
  \/ ReadDir
  \/ Validate
  \/ Extract
  \/ ParseFile
  \/ Normalize
  \/ BulkUpsertTransactions
  \/ InsertOne
  \/ MoveFile
  \/ IngestReturn
  \/ ClientRecord
  \/ NextRun

Spec == Init /\ [][Next]_vars

\* the context of the run is cancelled, or its deadline passes, while the run
\* is under way; the history keeps the entry that was being handled
Cancel ==
  /\ pc # "done"
  /\ ~ ctxDone
  /\ ctxDone' = TRUE
  /\ calls' = Logged("Cancel", TRUE)
  /\ UNCHANGED << dirs, config, fn, store, syncLog, run, pc, files, idx, stats, runErr,
                  locals, err, faults, snap >>

NextCtx == Next \/ Cancel

\* the runs under a context that may be cancelled at any point
SpecCtx == Init /\ [][NextCtx]_vars

\* the runs over directories of files without data rows
InitNoData == InitOver(NoDataEntries)

SpecNoData == InitNoData /\ [][Next]_vars

\* ------------------------------------------------------------------------
\* The extractors and the parser called on their own, as their tests call
\* them: the arguments are drawn from bounded sets, the call returns once
\* ------------------------------------------------------------------------

\* file names: a prefix, a word, a run of at most MaxDigits digits, an ending
NamePrefixes ==
  { <<>>, <<"m","y","_">>, <<"c","h","a","s","e","1","2","_">>,
    <<"c","h","a","s","e","9","8","7","6","_">> }

NameWords ==
  { <<"c","h","a","s","e">>, <<"C","H","A","S","E">>, <<"C","h","a","s","e">>,
    <<"c","h","a","s">>, <<"s","y","n","t","h","e","t","i","c">>,
    <<"S","y","n","t","h","e","t","i","c">>, <<"t","e","s","t">>,
    <<"r","a","n","d","o","m","f","i","l","e">> }

DigitRuns == { [i \in 1..k |-> Digits[i + 1]] : k \in 0..MaxDigits }

NameEndings ==
  { <<".","c","s","v">>, <<"_","j","a","n",".","c","s","v">>, <<".","t","x","t">> }

FileNames ==
  { a \o w \o d \o z : a \in NamePrefixes, w \in NameWords, d \in DigitRuns, z \in NameEndings }

\* CSV files as the reader returns them: a header of at most MaxCols names
\* and at most MaxRows data rows of one to MaxCols + 1 fields; the field at
\* column j of data row r reads "rj", so that a value tells its place
HeaderNames ==
  { <<"A","m","o","u","n","t">>, <<"A","M","O","U","N","T">>, <<"D","e","t","a","i","l","s">> }

Headers == UNION { [1..n -> HeaderNames] : n \in 1..MaxCols }

DataRow(r, len) == [j \in 1..len |-> << Digits[r + 1], Digits[j + 1] >>]

RowLengths == UNION { [1..m -> 1..(MaxCols + 1)] : m \in 0..MaxRows }

TableOf(header, lens) ==
  [name |-> <<"t",".","c","s","v">>, isDir |-> FALSE,
   rows |-> << header >> \o [r \in 1..Len(lens) |-> DataRow(r, lens[r])]]

EmptyFile == [name |-> <<"t",".","c","s","v">>, isDir |-> FALSE, rows |-> <<>>]

Tables == { EmptyFile } \cup { TableOf(h, lens) : h \in Headers, lens \in RowLengths }

\* the tables whose data rows all have as many fields as the header
Rectangular == { t \in Tables : \A r \in 1..Len(t.rows) : Len(t.rows[r]) = Len(t.rows[1]) }

\* the re-orderings of n columns
Reorderings(n) == { p \in [1..n -> 1..n] : \A i, j \in 1..n : p[i] = p[j] => i = j }

\* the file with the columns of the header and of every row re-ordered by p
Permuted(file, p) ==
  [file EXCEPT !.rows = [r \in 1..Len(file.rows) |->
                           [j \in 1..Len(file.rows[r]) |-> file.rows[r][p[j]]]]]

\* CSV files given to the normalizer through the parser.  The names of the
\* files, which the generic extractor recognises:
SourceNames ==
  { <<"c","h","a","s","e","1","2","3","4",".","c","s","v">>,
    <<"S","y","n","t","h","e","t","i","c",".","c","s","v">> }

\* the spellings of the posting date columns, and a column that is none
PostDateNames == { <<"P","o","s","t"," ","D","a","t","e">>, <<"P","O","S","T"," ","D","A","T","E">> }

PostingDateNames ==
  { <<"P","o","s","t","i","n","g"," ","D","a","t","e">>,
    <<"p","o","s","t","i","n","g"," ","d","a","t","e">> }

OtherDateNames == { <<"D","a","t","e">> }

\* two date columns of different lower-cased names, in either order
DateHeaders ==
  { <<a, b>> : a \in PostDateNames, b \in PostingDateNames \cup OtherDateNames }
  \cup { <<a, b>> : a \in PostingDateNames, b \in PostDateNames \cup OtherDateNames }
  \cup { <<a, b>> : a \in OtherDateNames, b \in PostDateNames \cup PostingDateNames }

\* the dates of column j: none, a date, a day that does not exist (first
\* column) or a month of one digit (second column)
GoodDate(j) ==
  IF j = 1 THEN <<"0","1","/","0","2","/","2","0","2","4">>
  ELSE <<"0","3","/","0","4","/","2","0","2","4">>

BadDate(j) ==
  IF j = 1 THEN <<"0","2","/","3","0","/","2","0","2","4">>
  ELSE <<"3","/","0","4","/","2","0","2","4">>

DateValues(j) == { <<>>, GoodDate(j), BadDate(j) }

DateRows == { <<a, b, <<"1">> >> : a \in DateValues(1), b \in DateValues(2) }

DateTables ==
  { [name |-> n, isDir |-> FALSE,
     rows |-> << h \o << <<"A","m","o","u","n","t">> >> >> \o rs] :
       n \in SourceNames, h \in DateHeaders,
       rs \in UNION { [1..m -> DateRows] : m \in 0..MaxRows } }

\* the text columns of a Transaction, as the files spell them
TextColumns ==
  << <<"D","e","t","a","i","l","s">>, <<"D","e","s","c","r","i","p","t","i","o","n">>,
     <<"C","a","t","e","g","o","r","y">>, <<"T","y","p","e">>,
     <<"C","h","e","c","k"," ","o","r"," ","S","l","i","p"," ","#">> >>

\* the text columns at the positions of S, in order
RECURSIVE TextHeader(_, _)
TextHeader(S, n) ==
  IF n > Len(TextColumns) THEN <<>>
  ELSE (IF n \in S THEN << TextColumns[n] >> ELSE <<>>) \o TextHeader(S, n + 1)

\* what a data row holds in its date and amount columns: a date or a month
\* that does not exist, an amount or a word
DateAndAmount ==
  { <<d, a>> : d \in { <<"0","1","/","0","2","/","2","0","2","4">>,
                        <<"1","3","/","0","2","/","2","0","2","4">> },
               a \in { <<"1",".","5">>, <<"a","b","c">> } }

\* a data row of the header h: its date and amount, then the text fields,
\* the one at column j of row r reading "rj"
TextRow(h, r, da) == da \o [j \in 1..(Len(h) - 2) |-> << Digits[r + 1], Digits[j + 1] >>]

TextTablesOf(n, h) ==
  { [name |-> n, isDir |-> FALSE,
     rows |-> << h >> \o [r \in 1..Len(das) |-> TextRow(h, r, das[r])]] :
       das \in UNION { [1..m -> DateAndAmount] : m \in 0..MaxRows } }

TextTables ==
  UNION { TextTablesOf(n, << <<"P","o","s","t","i","n","g"," ","D","a","t","e">>,
                             <<"A","m","o","u","n","t">> >> \o TextHeader(S, 1)) :
            n \in SourceNames, S \in SUBSET (1..Len(TextColumns)) }

Inputs ==
  { [fn |-> "ChaseExtractor.ExtractInfo", filename |-> f] : f \in FileNames }
  \cup { [fn |-> "mapRawRecordsToTransactions", file |-> t] : t \in DateTables \cup TextTables }
  \cup { [fn |-> "GenericExtractor.ExtractInfo", filename |-> f] : f \in FileNames }
  \cup { [fn |-> "Parse", file |-> t] : t \in Tables }
  \cup UNION { { [fn |-> "ParseReordered", file |-> t, order |-> p] :
                  p \in Reorderings(Len(t.rows[1])) } : t \in Rectangular \ { EmptyFile } }

InitCalls ==
  /\ input \in Inputs
  /\ output = <<>>
  /\ pc = "call"
  /\ unprocessed = {}
  /\ processed = [exists |-> FALSE, names |-> {}]
  /\ extractorKind = "chase"
  /\ moveProcessedFiles = FALSE
  /\ cwd = "elsewhere"
  /\ ctxDone = FALSE
  /\ store = {}
  /\ syncLog = <<>>
  /\ run = 1
  /\ files = <<>>
  /\ idx = 0
  /\ stats = NilStats
  /\ runErr = <<>>
  /\ sourceInfo = NoInfo
  /\ rawRecords = <<>>
  /\ transactions = <<>>
  /\ err = <<>>
  /\ calls = <<>>
  /\ faults = 0
  /\ snap = [e \in EntryIds |-> NoSnap]

\* what a call leaves alone: everything but its result
Returns ==
  /\ pc' = "return"
  /\ UNCHANGED << dirs, config, ctxDone, store, syncLog, run, files, idx, stats, runErr,
                  locals, err, calls, faults, snap, input >>

ChaseExtractorCall ==
  /\ pc = "call"
  /\ input.fn = "ChaseExtractor.ExtractInfo"
  /\ output' = ChaseExtractInfo(input.filename)
  /\ Returns

GenericExtractorCall ==
  /\ pc = "call"
  /\ input.fn = "GenericExtractor.ExtractInfo"
  /\ output' = GenericExtractInfo(input.filename)
  /\ Returns

ParseCall ==
  /\ pc = "call"
  /\ input.fn = "Parse"
  /\ output' = Parse(input.file)
  /\ Returns

\* the parser called on a file and on the same file with its columns re-ordered
ParseReorderedCall ==
  /\ pc = "call"
  /\ input.fn = "ParseReordered"
  /\ output' = [original |-> Parse(input.file),
                reordered |-> Parse(Permuted(input.file, input.order))]
  /\ Returns

\* processFile up to the normalizer: the SourceInfo of the name, the records
\* of the parser, and what mapRawRecordsToTransactions makes of them
NormalizeCall ==
  /\ pc = "call"
  /\ input.fn = "mapRawRecordsToTransactions"
  /\ LET info    == GenericExtractInfo(input.file.name)
         records == Parse(input.file).records
     IN  output' = [info |-> info, records |-> records,
                    mapped |-> mapRawRecordsToTransactions(records, info.DataSource,
                                                           info.AccountID)]
  /\ Returns

NextCalls ==
  \/ NormalizeCall
  \/ ChaseExtractorCall
  \/ GenericExtractorCall
  \/ ParseCall
  \/ ParseReorderedCall

SpecCalls == InitCalls /\ [][NextCalls]_vars

\* ------------------------------------------------------------------------
\* The client of the babylon API, its methods called on their own
\* ------------------------------------------------------------------------

\* the methods of APIClient that send a request
APIMethods ==
  {"DoEcho", "GetTransactionByID", "AddTransaction", "GetTransactionHistory"}

\* the status codes the server answers with
StatusCodes == {200, 201, 302, 400, 404, 500}

\* the response bodies: a JSON object with its keys, or text that is no JSON
JSONBodies ==
  { [valid |-> TRUE, obj |-> [value |-> <<"h", "i">>]],
    [valid |-> TRUE, obj |-> [id |-> <<"t", "1">>]],
    [valid |-> TRUE, obj |-> [transactionId |-> <<"t", "1">>]],
    [valid |-> TRUE, obj |-> [transactions |-> << <<"t", "1">> >>]],
    [valid |-> TRUE, obj |-> [message |-> <<"b", "a", "d">>]] }

NotJSON == [valid |-> FALSE, obj |-> [text |-> <<"<">>]]

Bodies == JSONBodies \cup { NotJSON }

\* the io.ReadCloser behind resp.Body: the one of the net/http transport,
\* which refuses a read once closed, or a reader wrapped in io.NopCloser by
\* a stub transport, whose Close does nothing
BodyKinds == {"transport", "nopCloser"}

APIInputs ==
  { [fn |-> f, status |-> st, content |-> b, kind |-> k, sendFails |-> sf,
     closeFails |-> cf, amountIsNaN |-> nan] :
      f \in APIMethods, st \in StatusCodes, b \in Bodies, k \in BodyKinds,
      sf \in BOOLEAN, cf \in BOOLEAN, nan \in BOOLEAN }
  \ { i \in [fn : APIMethods, status : StatusCodes, content : Bodies, kind : BodyKinds,
              sendFails : BOOLEAN, closeFails : BOOLEAN, amountIsNaN : BOOLEAN] :
        i.amountIsNaN /\ i.fn # "AddTransaction" }

InitAPI ==
  /\ input \in APIInputs
  /\ output = [resp |-> <<>>, events |-> <<>>, result |-> <<>>, err |-> <<>>]
  /\ pc = "send"
  /\ unprocessed = {}
  /\ processed = [exists |-> FALSE, names |-> {}]
  /\ extractorKind = "chase"
  /\ moveProcessedFiles = FALSE
  /\ cwd = "elsewhere"
  /\ ctxDone = FALSE
  /\ store = {}
  /\ syncLog = <<>>
  /\ run = 1
  /\ files = <<>>
  /\ idx = 0
  /\ stats = NilStats
  /\ runErr = <<>>
  /\ sourceInfo = NoInfo
  /\ rawRecords = <<>>
  /\ transactions = <<>>
  /\ err = <<>>
  /\ calls = <<>>
  /\ faults = 0
  /\ snap = [e \in EntryIds |-> NoSnap]

\* what a step of a method leaves alone: everything but its own locals
APIStep(next) ==
  /\ pc' = next
  /\ UNCHANGED << dirs, config, ctxDone, store, syncLog, run, files, idx, stats, runErr,
                  locals, err, calls, faults, snap, input >>

\* return resp, result, err
APIReturn(out, result, e) ==
  [out EXCEPT !.result = result, !.err = e]

\* io.ReadAll(resp.Body)
ReadAll(resp) ==
  IF resp.closed /\ resp.kind = "transport"
  THEN [err |-> "http: read on closed response body", data |-> NotJSON]
  ELSE [err |-> "", data |-> resp.content]

\* json.Unmarshal(body, &result) into a struct with the one field `field`:
\* keys the struct does not have are skipped, a missing key leaves the
\* field at its zero value
Unmarshal(data, field) ==
  IF ~ data.valid THEN [err |-> "invalid character", value |-> <<>>]
  ELSE [err |-> "", value |-> IF field \in DOMAIN data.obj THEN data.obj[field] ELSE <<>>]

\* the JSON key of the result struct of each method
ResultField(f) ==
  CASE f = "DoEcho"                -> "value"
    [] f = "GetTransactionByID"    -> "id"
    [] f = "AddTransaction"        -> "transactionId"
    [] f = "GetTransactionHistory" -> "transactions"

\* historySearchResponseUnmarshall, transactionPutResponseUnmarshall,
\* historyTransactionGetResponseUnmarshall and the happy path of DoEcho:
\* read the body, decode it, return the result
ResponseUnmarshall(out, field, decodeError) ==
  LET read    == ReadAll(out.resp)
      decoded == Unmarshal(read.data, field)
      seen    == [out EXCEPT !.events = Append(@, "ReadAll")]
  IN  IF read.err # ""
      THEN APIReturn(seen, <<>>, <<"error reading response body", read.err>>)
      ELSE IF decoded.err # ""
           THEN APIReturn(seen, <<>>, <<decodeError, decoded.err>>)
           ELSE APIReturn(seen, <<decoded.value>>, <<>>)

\* the branch for a status of 400 and above: read the body, decode the debug
\* message, return it as the error of the API
ErrorResponse(out, decodeError) ==
  LET read    == ReadAll(out.resp)
      decoded == Unmarshal(read.data, "message")
      seen    == [out EXCEPT !.events = Append(@, "ReadAll")]
  IN  IF read.err # ""
      THEN APIReturn(seen, <<>>, <<"error reading response body for error", read.err>>)
      ELSE IF decoded.err # ""
           THEN APIReturn(seen, <<>>, <<decodeError, decoded.err>>)
           ELSE APIReturn(seen, <<>>, <<"error returned from babylon api", decoded.value>>)

UnexpectedStatus(out) ==
  APIReturn(out, <<>>, <<"unexpected http status code", out.resp.StatusCode>>)

\* a deferred resp.Body.Close() runs when the method returns
DeferredClose(out) ==
  [out EXCEPT !.resp.closed = TRUE, !.events = Append(@, "Close")]

\* json.Marshal of the request body (AddTransaction), then
\* http.NewRequestWithContext and c.HTTPClient.Do(req)
SendRequest ==
  /\ pc = "send"
  /\ \/ /\ input.amountIsNaN
        /\ output' = APIReturn(output, <<>>, <<"error marshaling request body">>)
        /\ APIStep("apiReturn")
     \/ /\ ~ input.amountIsNaN
        /\ input.sendFails
        /\ output' = APIReturn([output EXCEPT !.events = Append(@, "Do")],
                               <<>>, <<"error sending request">>)
        /\ APIStep("apiReturn")
     \/ /\ ~ input.amountIsNaN
        /\ ~ input.sendFails
        /\ output' = [output EXCEPT
                        !.resp = [StatusCode |-> input.status, content |-> input.content,
                                  kind |-> input.kind, closed |-> FALSE],
                        !.events = Append(@, "Do")]
        /\ APIStep(IF input.fn = "GetTransactionHistory" THEN "status" ELSE "close")

\* err = resp.Body.Close() straight after the response has arrived, in
\* DoEcho, GetTransactionByID and AddTransaction
CloseBody ==
  /\ pc = "close"
  /\ \/ /\ input.closeFails
        /\ output' = APIReturn([output EXCEPT !.events = Append(@, "Close")], <<>>,
                               CASE input.fn = "DoEcho" ->
                                      <<"errror unmarshalling HTTP response body">>
                                 [] input.fn = "GetTransactionByID" ->
                                      <<"error closing IO stream for http body">>
                                 [] input.fn = "AddTransaction" ->
                                      <<"error closing io stream for HTTP response body">>)
        /\ APIStep("apiReturn")
     \/ /\ ~ input.closeFails
        /\ output' = [output EXCEPT !.resp.closed = TRUE, !.events = Append(@, "Close")]
        /\ APIStep("status")

\* DoEcho from the status check on
DoEcho ==
  /\ pc = "status"
  /\ input.fn = "DoEcho"
  /\ output' =
       IF output.resp.StatusCode \in {400, 500}
       THEN APIReturn(output, <<>>, <<"error returned from babylon api", <<>> >>)
       ELSE IF output.resp.StatusCode # 200
            THEN UnexpectedStatus(output)
            ELSE ResponseUnmarshall(output, "value", "errror unmarshalling HTTP response body")
  /\ APIStep("apiReturn")

\* GetTransactionByID from the status check on
GetTransactionByID ==
  /\ pc = "status"
  /\ input.fn = "GetTransactionByID"
  /\ output' =
       IF output.resp.StatusCode = 200
       THEN ResponseUnmarshall(output, "id", "error unmarshaling response body")
       ELSE IF output.resp.StatusCode >= 400
            THEN ErrorResponse(output, "error unmarshaling error response body")
            ELSE UnexpectedStatus(output)
  /\ APIStep("apiReturn")

\* AddTransaction from the second, deferred Close on
AddTransaction ==
  /\ pc = "status"
  /\ input.fn = "AddTransaction"
  /\ output' = DeferredClose(
       IF output.resp.StatusCode = 201
       THEN ResponseUnmarshall(output, "transactionId", "error unmarshaling response body")
       ELSE IF output.resp.StatusCode >= 400
            THEN ErrorResponse(output, "errror unmarshalling HTTP response body")
            ELSE UnexpectedStatus(output))
  /\ APIStep("apiReturn")

\* GetTransactionHistory from its deferred Close on
GetTransactionHistory ==
  /\ pc = "status"
  /\ input.fn = "GetTransactionHistory"
  /\ output' = DeferredClose(
       IF output.resp.StatusCode = 200
       THEN ResponseUnmarshall(output, "transactions", "error unmarshaling response body")
       ELSE IF output.resp.StatusCode >= 400
            THEN ErrorResponse(output, "error unmarshaling error response body")
            ELSE UnexpectedStatus(output))
  /\ APIStep("apiReturn")

NextAPI ==
  \/ SendRequest
  \/ CloseBody
  \/ DoEcho
  \/ GetTransactionByID
  \/ AddTransaction
  \/ GetTransactionHistory

SpecAPI == InitAPI /\ [][NextAPI]_vars

\* ------------------------------------------------------------------------
\* Reading the history of a run
\* ------------------------------------------------------------------------

\* the stages of the per-file pipeline
Stages == {"Validate", "Extract", "Parse", "Normalize", "Persist", "Relocate"}

Called(stage, e) ==
  \E i \in 1..Len(calls) : calls[i].stage = stage /\ calls[i].entry = e

Succeeded(stage, e) ==
  \E i \in 1..Len(calls) : calls[i].stage = stage /\ calls[i].entry = e /\ calls[i].ok

Failed(stage, e) ==
  \E i \in 1..Len(calls) : calls[i].stage = stage /\ calls[i].entry = e /\ ~ calls[i].ok

\* the name of the entry at position e of the listing
NameOf(e) == Catalogue[files[e]].name

\* the positions of the listing ingestCSVFile has returned for
Returned ==
  IF stats.nil THEN {}
  ELSE { e \in 1..Len(files) : e < idx \/ (e = idx /\ pc = "clientRecord") }

\* IngestCSVFiles has returned its Stats
ReturnedStats == pc = "done" /\ ~ stats.nil

\* ------------------------------------------------------------------------
\* C1
\* ------------------------------------------------------------------------

\* C1: when IngestCSVFiles has returned successfully, ProcessedFiles +
\* FailedFiles = TotalFiles: every entry of the listing is counted once, as
\* processed or as failed.
C1_EveryEntryCountedOnce ==
  ReturnedStats => stats.ProcessedFiles + stats.FailedFiles = stats.TotalFiles

\* ------------------------------------------------------------------------
\* C2
\* ------------------------------------------------------------------------

\* C2: a failed stage of one entry never aborts the run.  Once a stage has
\* been called and the run is over, IngestCSVFiles has returned Stats and no
\* error, every entry of the listing has gone through the pipeline (it was
\* validated, and its later stages ran up to its own first failure), and each
\* entry with a failed stage has its filename in Stats.Failures.
C2_FailureNeverAborts ==
  (pc = "done" /\ calls # <<>>) =>
    /\ ~ stats.nil
    /\ runErr = <<>>
    /\ Returned = 1..Len(files)
    /\ \A e \in 1..Len(files) :
         /\ Called("Validate", e)
         /\ (\E stage \in Stages : Failed(stage, e)) => NameOf(e) \in DOMAIN stats.Failures
         /\ (\A stage \in Stages : ~ Failed(stage, e)) => Succeeded("Persist", e)

\* a finished run over two entries in which a stage after Validate failed for
\* the first entry and the second entry was persisted
C2_Witness ==
  /\ pc = "done"
  /\ Len(files) = 2
  /\ \E stage \in Stages \ {"Validate"} : Failed(stage, 1)
  /\ NameOf(1) \in DOMAIN stats.Failures
  /\ Succeeded("Persist", 2)
  /\ runErr = <<>>

\* ------------------------------------------------------------------------
\* C3
\* ------------------------------------------------------------------------

StatError == <<"stat check for directory">>

ConnectError == <<"connection to MongoDB failed">>

ListError == <<"ingestion of CSV files failed", "failed to read directory">>

\* C3 as stated: the run returns an error only when the input directory is
\* missing or cannot be listed, and then no entry went through a stage.
C3_OnlyDirectoryErrors ==
  runErr # <<>> => (runErr \in {StatError, ListError} /\ calls = <<>>)

\* C3, amended: the run returns an error only when the input directory is
\* missing, the MongoDB connection cannot be established, or the directory
\* cannot be listed; in each case no stage was called for any entry and no
\* Stats were produced, and a run that called a stage returns no error.
C3_RunLevelErrors ==
  /\ runErr # <<>> =>
       /\ runErr \in {StatError, ConnectError, ListError}
       /\ calls = <<>>
       /\ stats.nil
  /\ calls # <<>> => runErr = <<>>

\* a run that failed on the MongoDB connection, in a run over a directory
\* that holds entries
C3_Witness ==
  /\ pc = "done"
  /\ runErr = ConnectError
  /\ unprocessed # {}
  /\ calls = <<>>

\* ------------------------------------------------------------------------
\* C4
\* ------------------------------------------------------------------------

\* the bulk write of the batch of the current file succeeds, the batch has
\* been written in full before, and the store is as that write left it
SecondIngest ==
  /\ pc = "persist"
  /\ pc' = "insertsync"
  /\ snap[files[idx]].n > 0
  /\ store = snap[files[idx]].st

\* C4: ingesting the same file a second time leaves the persisted transaction
\* documents exactly as they were after the first ingest: no document is
\* added and no field of a document changes.
C4_SecondIngestChangesNothing ==
  [][SecondIngest => store' = store]_vars

\* ------------------------------------------------------------------------
\* C5
\* ------------------------------------------------------------------------

SameNaturalKey(d, e) ==
  /\ d.Details = e.Details
  /\ d.PostingDate = e.PostingDate
  /\ d.Description = e.Description
  /\ d.dataSource = e.dataSource
  /\ d.accountID = e.accountID

\* C5: whatever files have been upserted, in whatever runs, the store holds
\* at most one document per natural key (Details, PostingDate, Description,
\* DataSource, AccountID).
C5_OneDocumentPerNaturalKey ==
  \A d, e \in store : SameNaturalKey(d, e) => d = e

\* the batch of chase2222.csv, in which two transactions share a natural key,
\* has been written in full twice, and the store holds its two documents
C5_Witness ==
  /\ snap[2].n >= 2
  /\ store = snap[2].st
  /\ Cardinality(store) = 2
  /\ pc = "insertsync"
  /\ Len(transactions) = 3

\* ------------------------------------------------------------------------
\* C6
\* ------------------------------------------------------------------------

\* the entry at position e is a directory, or its name ends in neither .csv
\* nor .CSV
NotACsvFile(e) ==
  \/ Catalogue[files[e]].isDir
  \/ ~ (HasSuffix(NameOf(e), sCsvLower) \/ HasSuffix(NameOf(e), sCsvUpper))

\* C6: an entry that is a directory, or whose name does not end in .csv or
\* .CSV, is recorded as a Stats failure, and none of Extract, Parse,
\* Normalize, Persist (BulkWrite, InsertOne) or Relocate is called for it.
C6_InvalidEntrySkipped ==
  \A e \in 1..Len(files) :
    NotACsvFile(e) =>
      /\ \A i \in 1..Len(calls) :
           calls[i].entry = e => (calls[i].stage = "Validate" /\ ~ calls[i].ok)
      /\ e \in Returned =>
           /\ Failed("Validate", e)
           /\ NameOf(e) \in DOMAIN stats.Failures
           /\ stats.FailedFiles >= 1

\* a finished run whose listing held a directory named *.csv and a file that
\* is not a csv file; both were recorded and neither was extracted
C6_Witness ==
  /\ pc = "done"
  /\ \E e1, e2 \in 1..Len(files) :
       /\ Catalogue[files[e1]].isDir
       /\ ~ Catalogue[files[e2]].isDir /\ NotACsvFile(e2)
       /\ {NameOf(e1), NameOf(e2)} \subseteq DOMAIN stats.Failures
       /\ ~ Called("Extract", e1) /\ ~ Called("Extract", e2)

\* ------------------------------------------------------------------------
\* C7
\* ------------------------------------------------------------------------

\* every stage of the pipeline of the entry at position e has succeeded
FullPipeline(e) ==
  /\ \A stage \in Stages \ {"Relocate"} : Succeeded(stage, e)
  /\ moveProcessedFiles => Succeeded("Relocate", e)
  /\ \A stage \in Stages : ~ Failed(stage, e)

\* C7: ProcessedFiles counts exactly the entries ingestCSVFile has returned
\* for whose stages all succeeded (Validate, Extract, Parse, Normalize,
\* Persist, and Relocate when the move flag is set); so it does at the end
\* of the run.
C7_ProcessedCountsFullPipelines ==
  ~ stats.nil =>
    stats.ProcessedFiles = Cardinality({ e \in Returned : FullPipeline(e) })

\* a finished run with the move flag set over two entries, one counted as
\* processed after its move, the other failed
C7_Witness ==
  /\ pc = "done"
  /\ moveProcessedFiles
  /\ Len(files) = 2
  /\ stats.ProcessedFiles = 1
  /\ \E e \in 1..2 : FullPipeline(e) /\ Succeeded("Relocate", e)
  /\ \E e \in 1..2 : \E stage \in Stages : Failed(stage, e)

\* ------------------------------------------------------------------------
\* C8
\* ------------------------------------------------------------------------

\* C8: Relocate is called for a file only when the move flag is set and only
\* after BulkUpsertTransactions returned nil for that file; with the flag
\* unset nothing is ever moved, and a file whose Extract, Parse, Normalize or
\* Persist stage failed is not moved: it is still in the input directory.
C8_RelocateOnlyAfterPersist ==
  /\ \A i \in 1..Len(calls) :
       calls[i].stage = "Relocate" =>
         /\ moveProcessedFiles
         /\ \E j \in 1..(i - 1) :
              /\ calls[j].stage = "Persist"
              /\ calls[j].entry = calls[i].entry
              /\ calls[j].ok
  /\ pc = "move" => (moveProcessedFiles /\ Succeeded("Persist", idx))
  /\ ~ moveProcessedFiles => (processed.names = {} /\ ~ processed.exists)
  /\ \A e \in 1..Len(files) :
       (\E stage \in {"Extract", "Parse", "Normalize", "Persist"} : Failed(stage, e)) =>
         /\ ~ Called("Relocate", e)
         /\ files[e] \in unprocessed
         /\ files[e] \notin processed.names

\* a file has been moved after its batch was persisted, in a run in which the
\* persisting of another file failed
C8_Witness ==
  /\ moveProcessedFiles
  /\ \E e \in 1..Len(files) :
       /\ Succeeded("Relocate", e)
       /\ files[e] \in processed.names
  /\ \E e \in 1..Len(files) : Failed("Persist", e) /\ e \in Returned

\* ------------------------------------------------------------------------
\* C9
\* ------------------------------------------------------------------------

\* the transactions the records of the current file normalize to
Surviving == fromRecords(sourceInfo.DataSource, sourceInfo.AccountID, rawRecords)

\* C9: when the parser returned records and none of them normalizes, the file
\* is recorded as a failure and BulkUpsertTransactions is not called for it;
\* when at least one record normalizes, normalization does not fail, the
\* batch handed to BulkUpsertTransactions is exactly the surviving
\* transactions, and after the bulk write the documents of the file's account
\* are documents of surviving transactions only.
C9_TotalLossFailsPartialLossPersists ==
  /\ pc = "persist" =>
       /\ Succeeded("Normalize", idx)
       /\ transactions = Surviving
       /\ Len(rawRecords) > 0 => Len(transactions) > 0
  /\ (pc = "ingestReturn" /\ Failed("Normalize", idx)) =>
       /\ Len(rawRecords) > 0
       /\ Len(Surviving) = 0
  /\ \A e \in 1..Len(files) :
       Failed("Normalize", e) =>
         /\ ~ Called("Persist", e) /\ ~ Called("BulkWrite", e) /\ ~ Called("InsertOne", e)
         /\ e \in Returned => NameOf(e) \in DOMAIN stats.Failures
  /\ pc = "insertsync" =>
       /\ \A i \in 1..Len(transactions) :
            \E d \in store : MatchesFilter(d, UpsertFilter(transactions[i]))
       /\ \A d \in store :
            d.accountID = sourceInfo.AccountID =>
              \E i \in 1..Len(transactions) :
                d = Stored(d.coll, d.id, ToBson(transactions[i]))

\* chase2222.csv, which loses some of its records in normalization, has been
\* persisted with its three surviving transactions, and chase3333.csv, which
\* loses all of them, has been recorded as a failure without a bulk write
C9_Witness ==
  /\ pc = "clientRecord"
  /\ files = <<2, 3>>
  /\ idx = 2
  /\ Failed("Normalize", 2)
  /\ Len(rawRecords) > 0
  /\ NameOf(2) \in DOMAIN stats.Failures
  /\ Succeeded("Persist", 1)
  /\ Len(syncLog) = 1
  /\ syncLog[1].RecordsUploaded = 3
  /\ Cardinality(store) = 2

\* ------------------------------------------------------------------------
\* C10
\* ------------------------------------------------------------------------

\* the record has no usable balance: no Balance column, an empty Balance, or
\* a Balance that is not a number
NoBalance(record) ==
  \/ kBalance \notin DOMAIN record
  \/ record[kBalance] = <<>>
  \/ ~ ParseFloat(record[kBalance]).ok

\* the record has no usable amount: no Amount column, an empty Amount, or an
\* Amount that is not a number
NoAmount(record) ==
  \/ kAmount \notin DOMAIN record
  \/ record[kAmount] = <<>>
  \/ ~ ParseFloat(record[kAmount]).ok

\* the record has a posting date the code can parse
HasDate(record) == ParseDate(getPostingDate(record, validPostingDateHeaders)).ok

\* the records among the first n of rs that have a date and an amount
RECURSIVE KeptUpTo(_, _)
KeptUpTo(rs, n) ==
  IF n = 0 THEN 0
  ELSE KeptUpTo(rs, n - 1) + (IF HasDate(rs[n]) /\ ~ NoAmount(rs[n]) THEN 1 ELSE 0)

\* C10: when normalization has returned the transactions of a file: of the
\* records of the file, one without a usable amount yields no
\* transaction, and one with a date and an amount is kept whatever its
\* balance; its transaction has Balance 0.0 when the record has no Balance
\* column, an empty Balance or a non-numeric Balance.  The transactions of
\* the file are those of its kept records, in order.
C10_BalanceDefaultsAmountDrops ==
  pc = "persist" =>
    /\ Len(transactions) = KeptUpTo(rawRecords, Len(rawRecords))
    /\ \A n \in 1..Len(rawRecords) :
         LET record == rawRecords[n]
             t == fromRecord(sourceInfo.DataSource, sourceInfo.AccountID, record)
         IN  /\ NoAmount(record) => t = <<>>
             /\ (HasDate(record) /\ ~ NoAmount(record)) =>
                  /\ Len(t) = 1
                  /\ transactions[KeptUpTo(rawRecords, n)] = t[1]
                  /\ NoBalance(record) => t[1].Balance = 0
                  /\ ~ NoBalance(record) => t[1].Balance = ParseFloat(record[kBalance]).val

\* Chase1111.CSV, which has no Balance column, has been stored with Balance 0,
\* and chase2222.csv has been normalized: its records with an empty and with
\* a non-numeric Balance were kept with Balance 0, next to one with a Balance
\* of 100.00, and its records without a usable Amount were dropped
C10_Witness ==
  /\ pc = "persist"
  /\ files = <<1, 2>>
  /\ idx = 2
  /\ \E d \in store : d.accountID = <<"1","1","1","1">> /\ d.Balance = 0
  /\ kBalance \notin DOMAIN Parse(Catalogue[1]).records[1]
  /\ \E n \in 1..Len(rawRecords) :
       /\ Get(rawRecords[n], kBalance) = <<>>
       /\ HasDate(rawRecords[n]) /\ ~ NoAmount(rawRecords[n])
  /\ \E n \in 1..Len(rawRecords) :
       /\ Get(rawRecords[n], kBalance) # <<>> /\ NoBalance(rawRecords[n])
       /\ HasDate(rawRecords[n]) /\ ~ NoAmount(rawRecords[n])
  /\ \E n \in 1..Len(rawRecords) : HasDate(rawRecords[n]) /\ NoAmount(rawRecords[n])
  /\ \E i \in 1..Len(transactions) : transactions[i].Balance = 10000
  /\ Cardinality({ i \in 1..Len(transactions) : transactions[i].Balance = 0 }) = 2

\* ------------------------------------------------------------------------
\* C11
\* ------------------------------------------------------------------------

\* the SyncLog inserts of this run that succeeded
SyncLogsAppended ==
  Cardinality({ i \in 1..Len(calls) : calls[i].stage = "InsertOne" /\ calls[i].ok })

\* the entries counted as processed whose batch was empty
ProcessedWithoutBatch ==
  { e \in Returned : FullPipeline(e) /\ ~ Called("BulkWrite", e) }

\* the entries recorded as failed after their SyncLog was inserted
FailedAfterSyncLog ==
  { e \in Returned : Succeeded("InsertOne", e) /\ Failed("Relocate", e) }

\* C11 as stated: at the end of a run the number of SyncLog entries appended
\* during the run equals Stats.ProcessedFiles.
C11_SyncLogPerProcessedFile ==
  ReturnedStats => SyncLogsAppended = stats.ProcessedFiles

\* C11, amended: at the end of a run the number of SyncLog entries appended
\* during the run is the number of entries whose non-empty batch was
\* persisted, one entry each: Stats.ProcessedFiles, less the processed files
\* that had no transactions, plus the files whose relocation failed after
\* the persist; a file that failed before or in its persist has none.  The
\* entries are in the sync log (all of it, in the first run).
C11_SyncLogPerPersistedBatch ==
  /\ Len(syncLog) >= SyncLogsAppended
  /\ run = 1 => Len(syncLog) = SyncLogsAppended
  /\ ReturnedStats =>
       /\ SyncLogsAppended =
            Cardinality({ e \in 1..Len(files) : Succeeded("InsertOne", e) })
       /\ \A e \in 1..Len(files) :
            Succeeded("InsertOne", e) <=>
              (Succeeded("Persist", e) /\ Called("BulkWrite", e))
       /\ SyncLogsAppended =
            stats.ProcessedFiles - Cardinality(ProcessedWithoutBatch)
              + Cardinality(FailedAfterSyncLog)

\* a finished run that counted chase2222.csv and the header-only
\* synthetic_1.csv as processed and appended the one SyncLog of chase2222.csv
C11_Witness ==
  /\ ReturnedStats
  /\ files = <<2, 6>>
  /\ stats.ProcessedFiles = 2
  /\ SyncLogsAppended = 1
  /\ Len(syncLog) = 1
  /\ ProcessedWithoutBatch = {2}

\* ------------------------------------------------------------------------
\* C12
\* ------------------------------------------------------------------------

\* the last stage call logged
LastCall(cs) == cs[Len(cs)]

\* the bulk write of a non-empty batch has returned no error
BulkWriteReturned == pc = "insertsync"

\* the SyncLog entry BulkUpsertTransactions builds for the batch
BatchSyncLog ==
  [CollectionName  |-> <<"t","r","a","n","s","a","c","t","i","o","n","s","_">>
                         \o sourceInfo.DataSource,
   RecordsUploaded |-> Len(transactions)]

\* C12 as stated: when the bulk write of a non-empty batch has returned no
\* error, exactly one SyncLog entry is inserted.
C12_OneSyncLogAfterBulkWrite ==
  [][BulkWriteReturned => Len(syncLog') = Len(syncLog) + 1]_vars

\* C12, amended: when the bulk write of a non-empty batch has returned no
\* error, InsertOne is called once with a SyncLog whose RecordsUploaded is
\* the number of transactions of the batch and whose CollectionName is
\* transactions_<dataSource>, the collection the documents of the batch are
\* in; exactly that entry is appended, unless the insert itself fails, and
\* then none is appended and an error is returned.  Nothing else changes
\* the sync log.
C12_SyncLogOfBatch ==
  [][ /\ (pc = "persist" /\ pc' # "insertsync") =>
           (Len(transactions) = 0 \/ ~ LastCall(calls').ok)
      /\ BulkWriteReturned =>
           /\ Len(transactions) > 0
           /\ \A i \in 1..Len(transactions) :
                \E d \in store : /\ MatchesFilter(d, UpsertFilter(transactions[i]))
                                 /\ d.coll = BatchSyncLog.CollectionName
           /\ Len(calls') = Len(calls) + 2
           /\ calls'[Len(calls) + 1].stage = "InsertOne"
           /\ \/ /\ calls'[Len(calls) + 1].ok
                 /\ syncLog' = Append(syncLog, BatchSyncLog)
                 /\ err' = <<>>
              \/ /\ ~ calls'[Len(calls) + 1].ok
                 /\ syncLog' = syncLog
                 /\ err' # <<>>
                 /\ pc' = "ingestReturn"
      /\ ~ BulkWriteReturned => syncLog' = syncLog
    ]_vars

\* chase2222.csv has been persisted: its SyncLog records the three
\* transactions of the batch, which left two documents in transactions_chase
C12_Witness ==
  /\ Len(syncLog) = 1
  /\ syncLog[1].RecordsUploaded = 3
  /\ syncLog[1].CollectionName =
       <<"t","r","a","n","s","a","c","t","i","o","n","s","_","c","h","a","s","e">>
  /\ Cardinality(store) = 2
  /\ Succeeded("InsertOne", idx)

\* ------------------------------------------------------------------------
\* C13
\* ------------------------------------------------------------------------

\* BulkUpsertTransactions is called with an empty batch
EmptyBatchCall == pc = "persist" /\ Len(transactions) = 0

\* C13: BulkUpsertTransactions with an empty batch returns nil and performs
\* no store operation: neither BulkWrite nor InsertOne is called, and the
\* transaction store and the sync log are left as they were.
C13_EmptyBatchIsNoOp ==
  [][EmptyBatchCall =>
       /\ store' = store
       /\ syncLog' = syncLog
       /\ calls' = Append(calls, [stage |-> "Persist", entry |-> idx, ok |-> TRUE])
       /\ err' = <<>>
       /\ faults' = faults
       /\ pc' = IF moveProcessedFiles THEN "move" ELSE "ingestReturn"
    ]_vars

\* BulkUpsertTransactions has returned nil for the empty batch of the
\* header-only synthetic_1.csv, on a store and a sync log chase2222.csv filled
C13_Witness ==
  /\ files = <<2, 6>>
  /\ idx = 2
  /\ pc \in {"move", "ingestReturn"}
  /\ Len(transactions) = 0
  /\ Succeeded("Persist", 2)
  /\ ~ Called("BulkWrite", 2) /\ ~ Called("InsertOne", 2)
  /\ Cardinality(store) = 2
  /\ Len(syncLog) = 1

\* ------------------------------------------------------------------------
\* C14
\* ------------------------------------------------------------------------

\* the step is a call of the driver for the current entry that fails
CallFails(stage) ==
  /\ Len(calls') = Len(calls) + 2
  /\ calls'[Len(calls) + 1] = [stage |-> stage, entry |-> idx, ok |-> FALSE]

\* BulkUpsertTransactions returns an error that carries that of the driver
ReturnsDriverError ==
  /\ pc' = "ingestReturn"
  /\ err' # <<>>
  /\ err'[Len(err')] = "driver error"
  /\ LastCall(calls') = [stage |-> "Persist", entry |-> idx, ok |-> FALSE]

\* C14: BulkUpsertTransactions returns a non-nil error carrying the
\* underlying error when the bulk write call fails, and then InsertOne is not
\* called and no SyncLog is inserted; and also when the SyncLog insert fails,
\* and then the batch has been written to the store and stays there: the
\* store is not changed by the failed insert, nor by any later step that is
\* not a bulk write.
C14_RepositoryErrors ==
  [][ /\ (pc = "persist" /\ CallFails("BulkWrite")) =>
           /\ ReturnsDriverError
           /\ syncLog' = syncLog
      /\ (pc = "insertsync" /\ CallFails("InsertOne")) =>
           /\ ReturnsDriverError
           /\ syncLog' = syncLog
           /\ store' = store
           /\ \A i \in 1..Len(transactions) :
                \E d \in store' : MatchesFilter(d, UpsertFilter(transactions[i]))
      /\ pc # "persist" => store' = store
    ]_vars

\* the SyncLog insert for chase2222.csv has failed: the file is recorded as a
\* failure with the error of the driver, its two documents are in the store
\* and the sync log is empty
C14_Witness ==
  /\ pc = "clientRecord"
  /\ files[idx] = 2
  /\ Failed("InsertOne", idx)
  /\ Succeeded("BulkWrite", idx)
  /\ err[Len(err)] = "driver error"
  /\ NameOf(idx) \in DOMAIN stats.Failures
  /\ Cardinality(store) = 2
  /\ syncLog = <<>>

\* ------------------------------------------------------------------------
\* C15
\* ------------------------------------------------------------------------

\* the stages of the pipeline of one entry that C15 names, with the bulk write
\* of Persist
PipelineStages == {"Extract", "Parse", "Normalize", "Persist", "BulkWrite", "Relocate"}

\* the positions in the history at which the context became done while an
\* entry of the listing was being handled
Cancelled == { i \in 1..Len(calls) : calls[i].stage = "Cancel" /\ calls[i].entry >= 1 }

\* the stages started for an entry later than the one that was being handled
\* when the context became done
StartedAfterCancel ==
  { j \in 1..Len(calls) :
      /\ calls[j].stage \in PipelineStages
      /\ \E i \in Cancelled : i < j /\ calls[i].entry < calls[j].entry }

\* the entries whose Persist failed after the context was done
PersistFailedAfterCancel ==
  { e \in Returned :
      \E i \in Cancelled : \E j \in 1..Len(calls) :
        i < j /\ calls[j].stage = "Persist" /\ calls[j].entry = e /\ ~ calls[j].ok }

\* C15 as stated: once the context is done, no pipeline stage (Extract, Parse,
\* Normalize, Persist, Relocate) is started for an entry later than the one
\* being handled at that moment, and a call that fails on the done context
\* is recorded as the failure of its file.  The loop of IngestCSVFiles never
\* looks at the context, so the first part does not hold.
C15_NoStageAfterCancel ==
  /\ StartedAfterCancel = {}
  /\ \A e \in PersistFailedAfterCancel : NameOf(e) \in DOMAIN stats.Failures

\* ------------------------------------------------------------------------
\* C16
\* ------------------------------------------------------------------------

\* a call of the function named f has returned
ReturnedFrom(f) == pc = "return" /\ input.fn = f

\* the positions of s at which "chase" stands followed by exactly four
\* digits: four digits, and no fifth one after them
ChaseThenFourDigits(s) ==
  { i \in 1..Len(s) :
      /\ i + 8 <= Len(s)
      /\ SubSeq(s, i, i + 4) = sChase
      /\ AllDigits(SubSeq(s, i + 5, i + 8))
      /\ (i + 9 <= Len(s) => ~ IsDigit(s[i + 9])) }

\* C16 as stated: ChaseExtractor.ExtractInfo returns DataSource "chase" and
\* AccountID d exactly when the file name holds, in any case, "chase"
\* followed by exactly four digits d, and returns no info (with
\* ErrUnableToExtractInfo) for every other file name.  The regular
\* expression chase(\d{4}) also matches "chase" followed by five digits.
C16_ChaseThenExactlyFourDigits ==
  ReturnedFrom("ChaseExtractor.ExtractInfo") =>
    LET s == ToLower(input.filename)
    IN  IF ChaseThenFourDigits(s) # {}
        THEN /\ output.ok
             /\ output.DataSource = sChase
             /\ \E i \in ChaseThenFourDigits(s) : output.AccountID = SubSeq(s, i + 5, i + 8)
        ELSE output = NoInfo

\* ------------------------------------------------------------------------
\* C17
\* ------------------------------------------------------------------------

\* the keywords GenericExtractor.ExtractInfo looks for
GenericKeywords == { sChase, sSynthetic }

\* the keywords the lower-cased file name holds
KeywordsIn(s) == { k \in GenericKeywords : Contains(s, k) }

\* C17 as stated: GenericExtractor.ExtractInfo succeeds exactly when the file
\* name holds one of its keywords in any case; a successful result carries
\* a matched keyword as DataSource and the placeholder AccountID "0000";
\* a file name that holds no keyword gives no info (with
\* ErrUnableToExtractInfo).  For the keyword "chase" the code wants four
\* digits after it and returns them as the AccountID.
C17_KeywordAndPlaceholder ==
  ReturnedFrom("GenericExtractor.ExtractInfo") =>
    LET matched == KeywordsIn(ToLower(input.filename))
    IN  IF matched # {}
        THEN \E k \in matched :
               output = [ok |-> TRUE, DataSource |-> k, AccountID |-> sDefaultAccount]
        ELSE output = NoInfo

\* ------------------------------------------------------------------------
\* C18
\* ------------------------------------------------------------------------

\* the names of the header are distinct
DistinctNames(header) ==
  \A i, j \in 1..Len(header) : header[i] = header[j] => i = j

\* C18 as stated: for a CSV file with distinct header names, re-ordering the
\* columns of the header and of every row in the same way leaves the
\* sequence of RawRecords Parse returns unchanged (and so the Transactions
\* normalized from them).  Two names that differ only in case are distinct
\* and share one key of the record, which the later column takes.
C18_ColumnOrderInvariance ==
  (ReturnedFrom("ParseReordered") /\ DistinctNames(input.file.rows[1])) =>
    output.reordered = output.original

\* ------------------------------------------------------------------------
\* C19
\* ------------------------------------------------------------------------

\* the data rows of a file that have at least as many fields as the header,
\* in file order
LongEnough(file) ==
  SelectSeq(Tail(file.rows), LAMBDA row : Len(row) >= Len(file.rows[1]))

\* the record maps every lower-cased header name to the value of the row at
\* a column of that name, and holds no other key
RecordOf(record, header, row) ==
  /\ DOMAIN record = { ToLower(header[i]) : i \in 1..Len(header) }
  /\ \A key \in DOMAIN record :
       \E i \in 1..Len(header) : ToLower(header[i]) = key /\ record[key] = row[i]
  /\ DistinctNames([i \in 1..Len(header) |-> ToLower(header[i])]) =>
       \A i \in 1..Len(header) : record[ToLower(header[i])] = row[i]

ParsedWithoutData ==
  { e \in 1..Len(files) : Called("Parse", e) /\ Len(Catalogue[files[e]].rows) <= 1 }

\* C20: for an empty file and for a file with only a header line Parse
\* returns zero records, a record count of 0 and no error, and the
\* orchestrator records no parse failure for such a file: once the file
\* could be opened its Parse stage succeeds, and so do the Normalize and
\* Persist stages that follow on the empty batch.
C20_NoDataIsNoFailure ==
  \A e \in ParsedWithoutData :
    /\ Parse(Catalogue[files[e]]) = [err |-> "", records |-> <<>>, count |-> 0]
    /\ Failed("Parse", e) =>
         (e \in Returned => stats.Failures[NameOf(e)][Len(stats.Failures[NameOf(e)])] = "failed to open file")
    /\ (e \in Returned /\ Succeeded("Parse", e)) =>
         /\ Succeeded("Normalize", e) /\ Succeeded("Persist", e)
         /\ NameOf(e) \in DOMAIN stats.Failures => Failed("Relocate", e)

\* a finished run of the generic extractor over the header-only file and the
\* empty file: both parsed, neither failed, both counted as processed
C20_Witness ==
  /\ pc = "done"
  /\ files = <<6, 7>>
  /\ Len(Catalogue[6].rows) = 1 /\ Len(Catalogue[7].rows) = 0
  /\ Succeeded("Parse", 1) /\ Succeeded("Parse", 2)
  /\ stats.FailedFiles = 0
  /\ stats.ProcessedFiles = 2

\* ------------------------------------------------------------------------
\* C21
\* ------------------------------------------------------------------------

\* the file given to the normalizer has the two date columns and the amount
HasDateColumns(file) ==
  Len(file.rows[1]) = 3 /\ file.rows[1][3] = <<"A","m","o","u","n","t">>

\* the value of the row in the column whose name, in any case, is alias;
\* <<>> when the header has no such column
UnderAlias(header, row, alias) ==
  IF \E i \in 1..Len(header) : ToLower(header[i]) = ToLower(alias)
  THEN row[CHOOSE i \in 1..Len(header) : ToLower(header[i]) = ToLower(alias)]
  ELSE <<>>

\* the first non-empty value among the aliases "Post Date", "Posting Date"
FirstAliasValue(header, row) ==
  IF UnderAlias(header, row, <<"P","o","s","t"," ","D","a","t","e">>) # <<>>
  THEN UnderAlias(header, row, <<"P","o","s","t"," ","D","a","t","e">>)
  ELSE UnderAlias(header, row, <<"P","o","s","t","i","n","g"," ","D","a","t","e">>)

\* the rows whose posting date is a date, in file order
Dated(file) ==
  SelectSeq(Tail(file.rows),
            LAMBDA row : FirstAliasValue(file.rows[1], row) \in { GoodDate(1), GoodDate(2) })

Passing(file) ==
  SelectSeq(Tail(file.rows),
            LAMBDA row : /\ row[1] = <<"0","1","/","0","2","/","2","0","2","4">>
                         /\ row[2] = <<"1",".","5">>)

\* the SourceInfo of the two names the files have
InfoOfName(name) ==
  IF name = <<"c","h","a","s","e","1","2","3","4",".","c","s","v">>
  THEN [ok |-> TRUE, DataSource |-> sChase, AccountID |-> <<"1","2","3","4">>]
  ELSE [ok |-> TRUE, DataSource |-> sSynthetic, AccountID |-> <<"0","0","0","0">>]

\* C22: for every raw record that passes date and amount parsing, the
\* Transaction handed to BulkUpsertTransactions has details, description,
\* category, type and checkOrSlipNum equal to the raw values of those
\* columns ("" when the column is absent), postingDate equal to the
\* record's date, and dataSource and accountID equal to the SourceInfo
\* extracted from the file's name; the transactions keep the order of the
\* raw records.
C22_FieldsCopiedVerbatim ==
  (ReturnedFrom("mapRawRecordsToTransactions") /\ ~ HasDateColumns(input.file)) =>
    LET header == input.file.rows[1]
        kept   == Passing(input.file)
        info   == InfoOfName(input.file.name)
    IN  /\ Len(output.mapped.transactions) = Len(kept)
        /\ \A k \in 1..Len(kept) :
             LET t == output.mapped.transactions[k]
             IN  /\ t.Details = UnderAlias(header, kept[k], TextColumns[1])
                 /\ t.Description = UnderAlias(header, kept[k], TextColumns[2])
                 /\ t.Category = UnderAlias(header, kept[k], TextColumns[3])
                 /\ t.Type = UnderAlias(header, kept[k], TextColumns[4])
                 /\ t.CheckOrSlipNum = UnderAlias(header, kept[k], TextColumns[5])
                 /\ t.PostingDate = kept[k][1]
                 /\ t.DataSource = info.DataSource
                 /\ t.AccountID = info.AccountID

\* the normalizer has returned for chase1234.csv with the columns Details
\* and Type but no Category, whose first row has a month 13 and whose second
\* row passes: one transaction, of the second row, with an empty category
C22_Witness ==
  /\ ReturnedFrom("mapRawRecordsToTransactions")
  /\ ~ HasDateColumns(input.file)
  /\ input.file.name = <<"c","h","a","s","e","1","2","3","4",".","c","s","v">>
  /\ Len(input.file.rows) = 3
  /\ input.file.rows[1] = << <<"P","o","s","t","i","n","g"," ","D","a","t","e">>,
                             <<"A","m","o","u","n","t">>, TextColumns[1], TextColumns[4] >>
  /\ input.file.rows[2][1] = <<"1","3","/","0","2","/","2","0","2","4">>
  /\ Len(output.mapped.transactions) = 1
  /\ output.mapped.transactions[1].Details = <<"2", "1">>
  /\ output.mapped.transactions[1].Type = <<"2", "2">>
  /\ output.mapped.transactions[1].Category = <<>>
  /\ output.mapped.transactions[1].AccountID = <<"1","2","3","4">>

\* ------------------------------------------------------------------------
\* C23
\* ------------------------------------------------------------------------

\* C23: when os.Stat fails on the unprocessed directory, Sink.Ingest returns
\* an error that holds "stat check for directory" at once: the connection
\* to MongoDB is not attempted and IngestCSVFiles is not called (no listing,
\* no Stats, no stage).  When the directory exists and the connection
\* succeeds, IngestCSVFiles is called, and Ingest returns nil whenever
\* IngestCSVFiles has returned its Stats without a run-level error.
C23_StatThenConnectThenIngest ==
  /\ runErr = StatError =>
       pc = "done" /\ stats.nil /\ files = <<>> /\ calls = <<>>
  /\ pc \in {"stat", "connect", "readdir"} =>
       runErr = <<>> /\ stats.nil /\ calls = <<>>
  /\ pc = "readdir" => ENABLED ReadDir
  /\ ReturnedStats => runErr = <<>>

\* the second run of the operator fails on os.Stat, after a first run that
\* connected, ingested a file and returned nil
C23_Witness ==
  /\ run = 2
  /\ pc = "done"
  /\ runErr = StatError
  /\ stats.nil
  /\ store # {}
  /\ Len(syncLog) = 1

\* ------------------------------------------------------------------------
\* C24
\* ------------------------------------------------------------------------

\* the relocation of the current file fails, its batch having been persisted
RelocationFails ==
  /\ pc = "move"
  /\ pc' = "ingestReturn"
  /\ LastCall(calls') = [stage |-> "Relocate", entry |-> idx, ok |-> FALSE]

\* ingestCSVFile returns for a file whose relocation failed
ReturnsAfterFailedRelocation ==
  /\ pc = "ingestReturn"
  /\ pc' = "clientRecord"
  /\ Failed("Relocate", idx)

\* the second run writes the batch of a file that the first run persisted
\* and could not relocate: the move flag is on, no call of the system has
\* failed (so the first run went through the bulk write and InsertOne, and
\* the file is still there because its rename found no file), and the store
\* is as the first run's write of the batch left it
ReingestAfterFailedRelocation ==
  /\ moveProcessedFiles
  /\ run = 2
  /\ faults = 0
  /\ pc = "persist"
  /\ pc' = "insertsync"
  /\ snap[files[idx]].n = 1
  /\ store = snap[files[idx]].st

\* C24 as stated: when relocation fails after a successful persist, the file
\* is recorded as a failure and not counted in ProcessedFiles, its
\* transactions stay persisted, and re-running the ingest over the
\* left-in-place file leaves the persisted transaction documents unchanged.
\* The last part fails for a file with two rows of one natural key.
C24_FailedMoveIsSafeToRetry ==
  [][ /\ RelocationFails => store' = store
      /\ ReturnsAfterFailedRelocation =>
           /\ stats'.ProcessedFiles = stats.ProcessedFiles
           /\ cur.name \in DOMAIN stats'.Failures
      /\ ReingestAfterFailedRelocation => store' = store ]_vars

\* ------------------------------------------------------------------------
\* C25
\* ------------------------------------------------------------------------

\* the entries whose batch was persisted and whose relocation has been
\* attempted, in a run with the move flag on in which no call of the system
\* has been refused
RelocationAttempted ==
  { e \in 1..Len(files) :
      moveProcessedFiles /\ faults = 0 /\ Succeeded("Persist", e) /\ Called("Relocate", e) }

\* C25 as stated: with the move flag on and the persistence of a file
\* succeeded, relocation creates processedDir if it is missing and moves the
\* file from unprocessedDir/<name> to processedDir/<name>; afterwards the
\* file is no longer in unprocessedDir and it is counted as processed,
\* whatever the working directory of the process.  moveFile renames the
\* base name, which the system looks up in the working directory.
C25_RelocatesWhateverWorkingDir ==
  \A e \in RelocationAttempted :
    /\ processed.exists
    /\ files[e] \notin unprocessed
    /\ files[e] \in processed.names
    /\ e \in Returned => (FullPipeline(e) /\ NameOf(e) \notin DOMAIN stats.Failures)

\* ------------------------------------------------------------------------
\* C26
\* ------------------------------------------------------------------------

\* the calls of the history that invoke ExtractInfo, Parse,
\* BulkUpsertTransactions (one Persist record per call) or the relocation
Invocations ==
  { i \in 1..Len(calls) : calls[i].stage \in {"Extract", "Parse", "Persist", "Relocate"} }

\* the number of entries whose outcome the Stats hold
OutcomesRecorded ==
  IF stats.nil THEN 0 ELSE stats.ProcessedFiles + Cardinality(DOMAIN stats.Failures)

\* C26: within one run nothing is retried: ExtractInfo, Parse,
\* BulkUpsertTransactions and the relocation are each invoked at most once
\* per directory entry, also after that entry or an earlier one has failed;
\* the entries are handled one after another in listing order, and no stage
\* of an entry starts before the outcome of the entry before it is recorded.
C26_NoRetryInListingOrder ==
  /\ \A i, j \in Invocations :
       (calls[i].stage = calls[j].stage /\ calls[i].entry = calls[j].entry) => i = j
  /\ \A i \in 1..Len(calls) :
       /\ calls[i].entry <= idx
       /\ i > 1 => calls[i - 1].entry <= calls[i].entry
  /\ (calls # <<>> /\ pc # "done") => OutcomesRecorded >= calls[Len(calls)].entry - 1

\* a finished run over two entries: the bulk write of the first failed, and
\* the second went once through its extraction, its parsing and its persist
C26_Witness ==
  /\ pc = "done"
  /\ Len(files) = 2
  /\ Failed("BulkWrite", 1)
  /\ Failed("Persist", 1)
  /\ Succeeded("Extract", 2)
  /\ Succeeded("Parse", 2)
  /\ Succeeded("Persist", 2)

\* ------------------------------------------------------------------------
\* C27
\* ------------------------------------------------------------------------

\* the positions of the batch whose transaction has the natural key of an
\* earlier or later transaction of the batch with other value fields
Colliding ==
  { i \in 1..Len(transactions) :
      \E j \in 1..Len(transactions) :
        /\ UpsertFilter(transactions[i]) = UpsertFilter(transactions[j])
        /\ transactions[i] # transactions[j] }

\* the last position of the batch with the natural key of position i
LastOfKey(i) ==
  CHOOSE j \in 1..Len(transactions) :
    /\ UpsertFilter(transactions[j]) = UpsertFilter(transactions[i])
    /\ \A k \in 1..Len(transactions) :
         UpsertFilter(transactions[k]) = UpsertFilter(transactions[i]) => k <= j

\* the documents of the store with the natural key of doc
StoredOfKey(doc) ==
  { d \in store : d.coll = CollectionNameOf(doc.DataSource) /\ MatchesFilter(d, UpsertFilter(doc)) }

\* C27 as stated: when two rows of a file give Transactions with equal
\* natural keys and different value fields, after BulkUpsertTransactions the
\* store holds a single document for that key and its value fields are
\* those of the later row (last write wins), for every order in which the
\* unordered batch may be applied.  An unordered batch may apply the earlier
\* row last.
C27_LastRowWins ==
  pc = "insertsync" =>
    \A i \in Colliding :
      /\ Cardinality(StoredOfKey(transactions[i])) = 1
      /\ \A d \in StoredOfKey(transactions[i]) :
           d = Stored(d.coll, d.id, ToBson(transactions[LastOfKey(i)]))

\* ------------------------------------------------------------------------
\* C28
\* ------------------------------------------------------------------------

\* C28: after IngestCSVFiles has returned its Stats over a listing of
\* pairwise distinct names, every entry is either counted in ProcessedFiles
\* or has one key in Stats.Failures, never both and never neither:
\* ProcessedFiles plus the number of keys of Failures is TotalFiles, and
\* TotalFiles is still the length of the listing.
C28_ProcessedOrFailed ==
  ReturnedStats =>
    /\ stats.TotalFiles = Len(files)
    /\ stats.ProcessedFiles + Cardinality(DOMAIN stats.Failures) = stats.TotalFiles
    /\ \A e \in 1..Len(files) : FullPipeline(e) = (NameOf(e) \notin DOMAIN stats.Failures)
    /\ stats.ProcessedFiles = Cardinality({ e \in 1..Len(files) : FullPipeline(e) })
    /\ DOMAIN stats.Failures \subseteq { NameOf(e) : e \in 1..Len(files) }

\* a returned run over two entries, one processed and one failed, the failed
\* one having been added to the failures twice under its one key
C28_Witness ==
  /\ ReturnedStats
  /\ Len(files) = 2
  /\ stats.ProcessedFiles = 1
  /\ Cardinality(DOMAIN stats.Failures) = 1
  /\ stats.FailedFiles = 2

\* ------------------------------------------------------------------------
\* C29
\* ------------------------------------------------------------------------

\* the entries ingestCSVFile has returned for whose name was extracted and
\* whose file parsed to zero raw records
ZeroRecords ==
  { e \in Returned :
      /\ Succeeded("Extract", e)
      /\ Succeeded("Parse", e)
      /\ Parse(Catalogue[files[e]]).records = <<>> }

\* neither BulkWrite nor InsertOne was called for the entry, and a first run
\* over files without records only has left the SyncLog empty
NothingWritten(e) ==
  /\ ~ Called("BulkWrite", e)
  /\ ~ Called("InsertOne", e)
  /\ (run = 1 /\ Returned \subseteq ZeroRecords) => syncLog = <<>>

\* C29 as stated: a .csv file whose name extracts and which parses to zero
\* raw records is counted in ProcessedFiles, and is relocated when the move
\* flag is on, although neither BulkWrite nor InsertOne is called for it and
\* no SyncLog entry is written.  Stated for the runs in which the system
\* refuses no call; the working directory of the process is any.
C29_NoRecordsProcessedAndRelocated ==
  \A e \in ZeroRecords :
    faults = 0 =>
      /\ NothingWritten(e)
      /\ NameOf(e) \notin DOMAIN stats.Failures
      /\ stats.ProcessedFiles >= Cardinality({ z \in ZeroRecords : z <= e })
      /\ moveProcessedFiles =>
           (files[e] \in processed.names /\ files[e] \notin unprocessed)

\* ------------------------------------------------------------------------
\* C30
\* ------------------------------------------------------------------------

\* the three methods the statement is about, with the status of their success
EarlyClosers == {"DoEcho", "GetTransactionByID", "AddTransaction"}

SuccessStatus(f) == IF f = "AddTransaction" THEN 201 ELSE 200

\* the body was read after it had been closed
ReadAfterClose(events) ==
  \E i, j \in 1..Len(events) : i < j /\ events[i] = "Close" /\ events[j] = "ReadAll"

\* the method has returned for a response that arrived with the status of
\* success and a JSON body, no Close having failed
SuccessAnswered(f) ==
  /\ pc = "apiReturn"
  /\ input.fn = f
  /\ ~ input.amountIsNaN /\ ~ input.sendFails /\ ~ input.closeFails
  /\ input.status = SuccessStatus(f)
  /\ input.content.valid

\* C30 as stated: in DoEcho, GetTransactionByID and AddTransaction the
\* response body is never read after it has been closed, and for a response
\* with the expected success status (200, 200, 201) and a valid JSON body
\* the call returns the decoded result with a nil error.
C30_BodyReadBeforeClosed ==
  \A f \in EarlyClosers :
    /\ (pc = "apiReturn" /\ input.fn = f) => ~ ReadAfterClose(output.events)
    /\ SuccessAnswered(f) =>
         /\ output.err = <<>>
         /\ output.result = << Unmarshal(input.content, ResultField(f)).value >>

====
